---- MODULE Spec2Model ----
(***************************************************************************)
(* Channel-MCP worker: the backend client (worker/llm_backend.py and       *)
(* worker/ollama_client.py) and the orchestration loops (worker/main.py    *)
(* over worker/db.py) as state machines.                                   *)
(*                                                                         *)
(* Time is counted in ticks of half a second (the polling sleep of         *)
(* _wait_job_result).  Numbers of the code vector are hundredths           *)
(* (0.7 is 70).  Strings of the source that are not ASCII are              *)
(* transliterated; emoji are written by name.                              *)
(***************************************************************************)
EXTENDS Integers, Sequences, FiniteSets, TLC

(***************************************************************************)
(* Bounds of the model.                                                    *)
(***************************************************************************)
MaxTimeoutSec == 4      \* largest configured llm_backend_timeout_sec
MaxLatency == 1         \* largest duration of one status request, in ticks
MaxCount == 2           \* largest configured tag_max_count

(***************************************************************************)
(* Program constants.                                                      *)
(***************************************************************************)
TimeoutFloorSec == 3    \* max(3, timeout_sec)
TicksPerSec == 2        \* asyncio.sleep(0.5): one tick is half a second
SleepTicks == 1         \* asyncio.sleep(0.5)
MAX_EMOJI == 10
MCP_EMOJI_LIMIT == 3    \* emoji[:3] of the queued-job path

(***************************************************************************)
(* Sequence helpers (Python list idioms).                                  *)
(***************************************************************************)
Take(s, n) == IF Len(s) <= n THEN s ELSE SubSeq(s, 1, n)

Range(s) == {s[i] : i \in 1..Len(s)}

\* list(dict.fromkeys(s)): first occurrences, order kept
RECURSIVE Dedup(_)
Dedup(s) ==
    IF s = <<>> THEN <<>>
    ELSE LET front == Dedup(SubSeq(s, 1, Len(s) - 1))
             last == s[Len(s)]
         IN IF last \in Range(front) THEN front ELSE Append(front, last)

Max2(a, b) == IF a >= b THEN a ELSE b
Min2(a, b) == IF a <= b THEN a ELSE b
Abs(a) == IF a < 0 THEN -a ELSE a

(***************************************************************************)
(* JSON values met in model replies.                                       *)
(***************************************************************************)
ObjItem == "<object>"          \* a list item that is no str/int/float
BlankItem == "  "              \* a string of white space only
PaddedCB == " CB "             \* a string with surrounding white space

\* str.strip()
Strip(s) == CASE s = BlankItem -> ""
              [] s = PaddedCB -> "CB"
              [] OTHER -> s

\* a JSON value found under a key of "code"
Num(v) == [t |-> "num", v |-> v]
NaS == [t |-> "str", v |-> 0]       \* a string that is no number
Null == [t |-> "null", v |-> 0]
Huge == [t |-> "huge", v |-> 0]     \* an integer literal beyond the float range

\* float(value): "ok" with the number, or the exception raised
Float(x) == CASE x.t = "num" -> [ok |-> TRUE, v |-> x.v, exc |-> "none"]
              [] x.t = "str" -> [ok |-> FALSE, v |-> 0, exc |-> "ValueError"]
              [] x.t = "null" -> [ok |-> FALSE, v |-> 0, exc |-> "TypeError"]
              [] OTHER -> [ok |-> FALSE, v |-> 0, exc |-> "OverflowError"]

(***************************************************************************)
(* Texts.  A text (lower-cased) is known by the keys that occur in it:     *)
(* sub  - the keys occurring as substrings (k in text);                    *)
(* word - the short keys matching \bkey\w*\b;                              *)
(* flags - the countries whose FLAG_PATTERNS match.                        *)
(* Keys are the source's keys, Cyrillic ones transliterated.               *)
(***************************************************************************)
NoHits == [sub |-> {}, word |-> {}, flags |-> {}]

\* "kurs rublya" : nothing but fx
TxtPlain == [sub |-> {"kurs"}, word |-> {}, flags |-> {}]
\* "srochno: neft upala, rossiya" : urgency, commodity, direction, a flag
TxtOil == [sub |-> {"srochno", "neft", "upal"}, word |-> {"neft", "upal"},
           flags |-> {"RU"}]
\* "rynok akcii vyros, skidka" : market, up, advertisement
TxtMarket == [sub |-> {"rynok", "akci", "vyros", "skidk"}, word |-> {},
              flags |-> {}]
\* "" : the empty text
TxtEmpty == NoHits

\* the keys of " ".join(tags).lower(), tag by tag
TagHits(tag) ==
    CASE tag = "CB" -> [sub |-> {"cb"}, word |-> {}, flags |-> {}]
      [] tag = PaddedCB -> [sub |-> {"cb"}, word |-> {}, flags |-> {}]
      [] tag = "USD/RUB" -> [sub |-> {"usd", "/"}, word |-> {}, flags |-> {}]
      [] tag = "Gaz" -> [sub |-> {"gaz"}, word |-> {"gaz"}, flags |-> {}]
      [] tag = "Bank" -> [sub |-> {"bank"}, word |-> {}, flags |-> {}]
      [] OTHER -> NoHits

tag_text(tags) ==
    [sub |-> UNION {TagHits(tags[i]).sub : i \in 1..Len(tags)},
     word |-> UNION {TagHits(tags[i]).word : i \in 1..Len(tags)},
     flags |-> {}]

(***************************************************************************)
(* The code vector.                                                        *)
(***************************************************************************)
CodeKeys == {"sentiment", "urgency", "market", "macro", "geopolitics",
             "company", "commodities", "fx", "rates", "crypto",
             "usefulness", "ad"}

_clamp(value, min_value, max_value) == Max2(min_value, Min2(max_value, value))

\* float(raw) of _normalize_code: a missing key is None, so TypeError
RawOf(payload, key) == IF key \in DOMAIN payload THEN payload[key] ELSE Null

\* the exception _normalize_code lets through, "none" when it returns
_normalize_code_exc(payload) ==
    IF \E k \in CodeKeys : Float(RawOf(payload, k)).exc = "OverflowError"
    THEN "OverflowError" ELSE "none"

_normalize_code(payload) ==
    [key \in CodeKeys |->
        LET f == Float(RawOf(payload, key))
            value == IF f.ok THEN f.v ELSE 0
        IN IF key = "sentiment" THEN _clamp(value, -100, 100)
           ELSE _clamp(value, 0, 100)]

Get(d, key) == IF key \in DOMAIN d THEN d[key] ELSE 0

\* a merge that keeps the model's vector and drops the scorer's
merge_code_model_only(base, fallback) == [key \in DOMAIN base |-> base[key]]

_merge_code(base, fallback) ==
    [key \in (DOMAIN base) \cup (DOMAIN fallback) |->
        IF key \notin DOMAIN fallback THEN base[key]
        ELSE IF key = "sentiment"
             THEN IF Abs(fallback[key]) > Abs(Get(base, key))
                  THEN fallback[key] ELSE Get(base, key)
             ELSE Max2(Get(base, key), fallback[key])]

(***************************************************************************)
(* _fallback_code: the heuristic code vector of (tags, text).              *)
(***************************************************************************)
\* has_any of _fallback_code: plain substring search in text and tags
code_has_any(keys, tags, text) ==
    (keys \cap text.sub # {}) \/ (keys \cap tag_text(tags).sub # {})

_fallback_code(tags, text) ==
    LET has(keys) == code_has_any(keys, tags, text)
        urgency == IF has({"srochno", "molniya", "breaking", "vazhno", "urgent"})
                   THEN 80 ELSE 0
        market0 == IF has({"rynok", "indeks", "akci", "kotirov", "s&p", "nasdaq",
                           "dow", "imoex", "rts"}) THEN 70 ELSE 0
        macro == IF has({"inflyac", "vvp", "gdp", "bezrabot", "ekonomik", "makro"})
                 THEN 70 ELSE 0
        geopolitics == IF has({"sankc", "peregovor", "konflikt", "obostren",
                               "ukrain", "ssha", "kitai", "es", "geopolit"})
                       THEN 70 ELSE 0
        commodities == IF has({"neft", "gaz", "brent", "urals", "zolot", "serebr",
                               "metall", "ugol", "ruda", "commod"}) THEN 70 ELSE 0
        fx == IF has({"valyut", "usd", "eur", "yuan", "kurs", "fx"}) THEN 70 ELSE 0
        rates == IF has({"cb", "stavk", "klyuchev", "rates"}) THEN 80 ELSE 0
        isCrypto == has({"btc", "eth", "bitkoin", "kript", "blockchain", "crypto"})
        crypto == IF isCrypto THEN 80 ELSE 0
        market == IF isCrypto THEN Max2(market0, 60) ELSE market0
        up == has({"vyros", "rost", "pribav", "podorozh", "uvelich"})
        down == has({"upal", "sniz", "obval", "podeshev", "prosel"})
        sentiment == IF down THEN -40 ELSE IF up THEN 40 ELSE 0
        ad == IF has({"reklam", "promokod", "skidk", "kupon", "podpis", "partner",
                      "sponsor", "kupit", "zakazat", "akciya", "rozygrysh",
                      "konkurs", "registrac", "pereidi", "ssylka"})
              THEN 85 ELSE 0
        u0 == 25
        u1 == IF urgency >= 70 THEN Max2(u0, 60) ELSE u0
        u2 == IF has({"vpervye", "rekord", "anomal", "neobych"})
              THEN Max2(u1, 60) ELSE u1
        u3 == IF has({"otchet", "rezultat", "dividen", "ipo", "stavk", "inflyac"})
              THEN Max2(u2, 50) ELSE u2
        u4 == IF has({"podkast", "strim", "intervyu"}) THEN Min2(u3, 25) ELSE u3
        u5 == IF ad >= 70 THEN Min2(u4, 15) ELSE u4
    IN [key \in CodeKeys |->
          CASE key = "sentiment" -> sentiment
            [] key = "urgency" -> urgency
            [] key = "market" -> market
            [] key = "macro" -> macro
            [] key = "geopolitics" -> geopolitics
            [] key = "company" -> 0
            [] key = "commodities" -> commodities
            [] key = "fx" -> fx
            [] key = "rates" -> rates
            [] key = "crypto" -> crypto
            [] key = "usefulness" -> u5
            [] OTHER -> ad]

(***************************************************************************)
(* Emoji, written by name.                                                 *)
(***************************************************************************)
FlagOrder == <<"RU", "US", "CN", "EU", "GB", "DE", "FR", "IT", "JP", "KR",
               "IN", "BR", "TR", "UA", "CA", "AU", "SA", "AE", "IL", "IR",
               "IQ", "EG", "PL", "CZ", "NL", "BE", "ES", "PT", "SE", "NO",
               "FI", "DK", "CH", "AT", "MX", "AR", "CL", "CO", "KZ", "BY">>

ALLOWED_EMOJI ==
    {"warn", "fire", "chart_down", "chart_up", "moneybag", "coin", "fx",
     "oil", "bank", "factory", "receipt", "news", "brain", "globe", "shield",
     "test_tube", "rocket", "target", "check", "cross", "angry", "cry",
     "smile", "party", "gold_medal", "silver_medal", "bronze_medal", "rock",
     "wood", "grain", "corn", "candy", "seedling", "fuel", "zap", "plane",
     "satellite", "house", "cow", "fish", "bar_chart", "chart_yen",
     "radioactive", "ship", "boom", "bomb", "game", "joystick", "trophy",
     "swords", "arrow_up", "arrow_down"}
    \cup Range(FlagOrder)

\* the keys of at most 4 characters: matched as \bkey\w*\b, the others as substrings
ShortKeys == {"port", "mor", "udar", "bomb", "avar", "upal", "sniz", "rast",
              "gold", "med", "neft", "gaz", "lng", "ruda", "uran", "les",
              "zern", "oves", "agro", "myaso", "govya", "skot", "ryb", "avia",
              "yader", "atom", "dota", "cs2", "geim", "igr", "liga", "match",
              "vs", "priz", "$", "tys"}

match_key(value, key) ==
    IF key \in ShortKeys THEN key \in value.word ELSE key \in value.sub

add(result, emoji) ==
    IF emoji \in ALLOWED_EMOJI /\ emoji \notin Range(result)
    THEN Append(result, emoji) ELSE result

\* the "Commodity / domain" matchers, in order
DomainMatchers ==
    << [keys |-> {"zolot", "gold", "zoloto"}, e |-> "gold_medal"],
       [keys |-> {"serebr", "silver"}, e |-> "silver_medal"],
       [keys |-> {"med", "copper", "bronze", "bronz"}, e |-> "bronze_medal"],
       [keys |-> {"platin", "pallad"}, e |-> "coin"],
       [keys |-> {"neft", "brent", "urals"}, e |-> "oil"],
       [keys |-> {"gaz", "lng"}, e |-> "fuel"],
       [keys |-> {"ugol", "ruda", "zhelez", "alyumin", "nikel", "litii",
                  "kobalt", "uran"}, e |-> "rock"],
       [keys |-> {"les", "drevesin", "pilomat", "lesomat"}, e |-> "wood"],
       [keys |-> {"zern", "pshenic", "yachmen", "oves"}, e |-> "grain"],
       [keys |-> {"kukuruz"}, e |-> "corn"],
       [keys |-> {"sahar"}, e |-> "candy"],
       [keys |-> {"udobr", "agro", "agrar", "posev"}, e |-> "seedling"],
       [keys |-> {"myaso", "govya", "skot", "molok"}, e |-> "cow"],
       [keys |-> {"ryb", "seafood"}, e |-> "fish"],
       [keys |-> {"elektroenerg", "moshnost", "energosistem"}, e |-> "zap"],
       [keys |-> {"avia", "samolet", "aeroport"}, e |-> "plane"],
       [keys |-> {"kosmos", "sputnik", "space"}, e |-> "satellite"],
       [keys |-> {"nedvizh", "ipotek", "stroitelstv"}, e |-> "house"],
       [keys |-> {"yader", "atom", "radiac"}, e |-> "radioactive"],
       [keys |-> {"rynok", "indeks", "kotirov"}, e |-> "bar_chart"] >>

\* the "Gaming / esports" matchers, in order
GamingMatchers ==
    << [keys |-> {"dota", "dota 2", "cs2", "cs:go", "counter-strike",
                  "kibersport", "esports", "geim", "igr", "geimer"},
        e |-> "game"],
       [keys |-> {"turnir", "chempionat", "liga", "season", "final",
                  "playoff", "plei-off"}, e |-> "trophy"],
       [keys |-> {"match", "seriya", "protiv", "vs"}, e |-> "swords"],
       [keys |-> {"priz", "prizov", "vyigral", "pobed", "$", "million",
                  "tys"}, e |-> "moneybag"] >>

emoji_has_any_text(keys, text) == \E k \in keys : match_key(text, k)

emoji_has_any(keys, tags, text) ==
    emoji_has_any_text(keys, text) \/ \E k \in keys : match_key(tag_text(tags), k)

\* add(e1); add(e2); ... : the allowed ones not yet present, appended in order
AddAll(result, emojis) ==
    result \o SelectSeq(Dedup(emojis),
                        LAMBDA e : e \in ALLOWED_EMOJI /\ e \notin Range(result))

\* one "if has_any(keys): add(e)" after another
ApplyMatchers(result, matchers, tags, text) ==
    LET matched == SelectSeq(matchers, LAMBDA m : emoji_has_any(m.keys, tags, text))
    IN AddAll(result, [i \in 1..Len(matched) |-> matched[i].e])

\* for flag, patterns in FLAG_PATTERNS.items(): if any pattern matches the text
ApplyFlags(result, flags, text) ==
    AddAll(result, SelectSeq(flags, LAMBDA f : f \in text.flags))

\* "if cond: add(emoji)"
AddIf(result, cond, emoji) == IF cond THEN add(result, emoji) ELSE result

\* "if cond and none of absent in result: add(emoji)"
AddIfNone(result, cond, absent, emoji) ==
    IF cond /\ absent \cap Range(result) = {} THEN add(result, emoji) ELSE result

\* a fallback that leaves an empty result empty
news_never(result) == result

\* "if not result: add(news)"
NewsIfEmpty(result) == IF result = <<>> THEN add(result, "news") ELSE result

_fallback_emoji(tags, code, text) ==
    LET tt == tag_text(tags)
        r1 == AddIf(<<>>, emoji_has_any_text({"tanker", "sudno", "korabl", "port",
                                              "mor"}, text), "ship")
        r2 == AddAll(r1,
                 IF emoji_has_any_text({"vzryv", "vzorval", "vzryvo", "udar",
                                        "obstrel", "bomb", "vzryvchat"}, text)
                 THEN <<"bomb">>
                 ELSE IF emoji_has_any_text({"avar", "katastrof", "pozhar"}, text)
                      THEN <<"boom">> ELSE <<>>)
        r3 == AddAll(r2,
                 IF emoji_has_any_text({"upal", "sniz", "paden", "obval", "prosel"}, text)
                 THEN <<"chart_down">>
                 ELSE IF emoji_has_any_text({"vyros", "podnyal", "uvelich", "pribav",
                                             "rast"}, text)
                      THEN <<"chart_up">>
                      ELSE IF Get(code, "market") > 60
                           THEN <<IF Get(code, "sentiment") >= 0
                                  THEN "chart_up" ELSE "chart_down">>
                           ELSE <<>>)
        r4 == ApplyMatchers(r3, DomainMatchers, tags, text)
        r5 == AddIfNone(r4, Get(code, "commodities") > 70,
                        {"gold_medal", "oil", "rock"}, "coin")
        r6 == ApplyMatchers(r5, GamingMatchers, tags, text)
        r7 == ApplyFlags(r6, FlagOrder, text)
        r8 == AddIf(r7, "/" \in tt.sub \/ Get(code, "fx") > 60, "fx")
        r9 == AddIf(r8, "bank" \in tt.sub \/ "cb" \in tt.sub \/ Get(code, "rates") > 70,
                    "bank")
        r10 == AddIfNone(r9, Get(code, "geopolitics") > 60, {"globe"}, "globe")
        r11 == AddIf(r10, Get(code, "urgency") > 70, "warn")
    IN Take(NewsIfEmpty(r11), MAX_EMOJI)

(***************************************************************************)
(* Model replies.  A model text is known by its form and, when a JSON      *)
(* object can be read from it, by the three fields of that object.         *)
(*   form: "empty"  the empty string                                       *)
(*         "garbage"  no JSON object in it                                 *)
(*         "object"  exactly one JSON object                               *)
(*         "embedded"  a JSON object inside other text                     *)
(*         "trailing_comma"  an object with a comma before } or ]          *)
(***************************************************************************)
EmptyDict == [k \in {} |-> Null]

NoFields == [isEmptyDict |-> TRUE, tagsIsList |-> FALSE, tags |-> <<>>,
             emojiIsList |-> FALSE, emoji |-> <<>>,
             codeIsDict |-> FALSE, code |-> EmptyDict]

MText(form, fields) == [form |-> form, fields |-> fields]

GoodFields ==
    [isEmptyDict |-> FALSE,
     tagsIsList |-> TRUE, tags |-> <<"Ozon", PaddedCB, "Ozon", ObjItem, "Gaz">>,
     emojiIsList |-> TRUE, emoji |-> <<"chart_up", "pizza", "news", "warn", ObjItem>>,
     codeIsDict |-> TRUE,
     code |-> [k \in {"sentiment", "market", "fear", "rates", "ad"} |->
                 CASE k = "sentiment" -> Num(50)
                   [] k = "market" -> Num(150)
                   [] k = "fear" -> Num(30)
                   [] k = "rates" -> NaS
                   [] OTHER -> Null]]

\* {"tags": ["  "], "emoji": [], "code": {}}: an object without a usable tag
NoTagFields ==
    [isEmptyDict |-> FALSE, tagsIsList |-> TRUE, tags |-> <<BlankItem>>,
     emojiIsList |-> TRUE, emoji |-> <<>>, codeIsDict |-> TRUE, code |-> EmptyDict]

\* {"tags": ["Ozon"], "code": {"market": 1000...0}}: a number float() cannot hold
HugeFields ==
    [isEmptyDict |-> FALSE, tagsIsList |-> TRUE, tags |-> <<"Ozon">>,
     emojiIsList |-> FALSE, emoji |-> <<>>,
     codeIsDict |-> TRUE, code |-> [k \in {"market"} |-> Huge]]

EmptyText == MText("empty", NoFields)

ModelTexts ==
    {MText("garbage", NoFields), MText("object", NoFields),
     MText("embedded", GoodFields), MText("trailing_comma", GoodFields),
     MText("object", NoTagFields), MText("object", HugeFields)}

\* llm_backend._extract_json(text) or {}: the fields read, NoFields for {}
mcp_extract_json(mt) ==
    IF mt.form \in {"object", "embedded"} THEN mt.fields ELSE NoFields

\* ollama_client._extract_json(text): the regex span, then once more after
\* _repair_json.  ok = FALSE is None.
ollama_extract_json(mt) ==
    IF mt.form \in {"object", "embedded", "trailing_comma"}
    THEN [ok |-> TRUE, fields |-> mt.fields]
    ELSE [ok |-> FALSE, fields |-> NoFields]

(***************************************************************************)
(* The result envelope of a job: result["data"] with the text under        *)
(* "response", "message" or "choices", or with "embedding".                *)
(***************************************************************************)
JobResult(shape, mt, embIsList, emb) ==
    [shape |-> shape, text |-> mt, embeddingIsList |-> embIsList, embedding |-> emb]

NoResult == JobResult("no_data", EmptyText, FALSE, <<>>)

TagResults ==
    {JobResult("response", mt, FALSE, <<>>) : mt \in ModelTexts}
    \cup {JobResult("message", MText("object", GoodFields), FALSE, <<>>), NoResult}

EmbedResults ==
    {NoResult,
     JobResult("data", EmptyText, TRUE, <<>>),
     JobResult("data", EmptyText, TRUE, <<Num(10), NaS, Num(-20)>>),
     JobResult("data", EmptyText, TRUE, <<NaS>>),
     JobResult("data", EmptyText, TRUE, <<Num(10), Huge>>)}

_extract_text_from_result(result) ==
    IF result.shape \in {"response", "message", "choices"} THEN result.text
    ELSE EmptyText

\* [float(item) for item in raw], TypeError and ValueError skipped
_extract_embedding_from_result(result) ==
    IF result.shape = "no_data" \/ ~result.embeddingIsList
    THEN [exc |-> "none", v |-> <<>>]
    ELSE LET raw == result.embedding
             conv == SelectSeq(raw, LAMBDA x : Float(x).ok)
         IN IF \E i \in 1..Len(raw) : Float(raw[i]).exc = "OverflowError"
            THEN [exc |-> "OverflowError", v |-> <<>>]
            ELSE [exc |-> "none", v |-> [i \in 1..Len(conv) |-> Float(conv[i]).v]]

(***************************************************************************)
(* llm_backend.generate_tags, lines 222-250: what the queued-job path      *)
(* makes of a job result.  exc # "none" is an exception raised there.      *)
(***************************************************************************)
\* lines 225-227: the str/int/float items of "tags", stripped, the empty ones dropped
mcp_parsed_tags(parsed) ==
    LET raw == IF parsed.tagsIsList THEN parsed.tags ELSE <<>>
        scalars == SelectSeq(raw, LAMBDA t : t # ObjItem)
        stripped == [i \in 1..Len(scalars) |-> Strip(scalars[i])]
    IN SelectSeq(stripped, LAMBDA t : t # "")

\* lines 228-230
mcp_tags(parsed, candidates, max_count) ==
    LET tags == mcp_parsed_tags(parsed)
        tags2 == IF tags = <<>> /\ candidates # <<>>
                 THEN Take(Dedup(candidates), max_count) ELSE tags
    IN Take(Dedup(tags2), max_count)

mcp_emoji(parsed) ==
    LET raw == IF parsed.emojiIsList THEN parsed.emoji ELSE <<>>
        strs == SelectSeq(raw, LAMBDA e : e # ObjItem)
        stripped == [i \in 1..Len(strs) |-> Strip(strs[i])]
    IN Take(SelectSeq(stripped, LAMBDA e : e # ""), MCP_EMOJI_LIMIT)

mcp_code(parsed) ==
    LET raw == IF parsed.codeIsDict THEN parsed.code ELSE EmptyDict
        keys == {k \in DOMAIN raw : Float(raw[k]).ok}
    IN IF \E k \in DOMAIN raw : Float(raw[k]).exc = "OverflowError"
       THEN [exc |-> "OverflowError", v |-> EmptyDict]
       ELSE [exc |-> "none", v |-> [k \in keys |-> Float(raw[k]).v]]

NoValue == [tags |-> <<>>, emoji |-> <<>>, code |-> EmptyDict, embedding |-> <<>>]

mcp_generate_tags_result(result, candidates, max_count) ==
    LET parsed == mcp_extract_json(_extract_text_from_result(result))
        code == mcp_code(parsed)
    IN IF code.exc # "none" THEN [exc |-> code.exc, v |-> NoValue]
       ELSE [exc |-> "none",
             v |-> [tags |-> mcp_tags(parsed, candidates, max_count),
                    emoji |-> mcp_emoji(parsed),
                    code |-> code.v, embedding |-> <<>>]]

\* llm_backend.embed_text, lines 307-310
mcp_embed_result(result) ==
    LET e == _extract_embedding_from_result(result)
    IN IF e.exc # "none" THEN [exc |-> e.exc, v |-> NoValue]
       ELSE IF e.v = <<>> THEN [exc |-> "empty embedding", v |-> NoValue]
       ELSE [exc |-> "none", v |-> [NoValue EXCEPT !.embedding = e.v]]

(***************************************************************************)
(* ollama_client.generate_tags, lines 492-558, and embed_text, 572-578:    *)
(* what the direct path makes of the reply of the chat endpoint.           *)
(***************************************************************************)
SAFE_EMOJI == {"news", "warn", "angry", "cry", "smile", "party", "brain"}

ollama_emoji_list(fields) ==
    LET raw == IF fields.emojiIsList THEN fields.emoji ELSE <<>>
        strs == SelectSeq(raw, LAMBDA e : e # ObjItem)
        stripped == [i \in 1..Len(strs) |-> Strip(strs[i])]
    IN Take(Dedup(SelectSeq(stripped, LAMBDA e : e \in ALLOWED_EMOJI)), MAX_EMOJI)

\* lines 545-556: the model's emoji against the fallback's
\* a reconciliation that keeps the model's emoji only when the scorer has them too
reconcile_emoji_no_safe(model_emoji, fallback_emoji) ==
    IF model_emoji # <<>>
    THEN LET fb == Range(fallback_emoji)
             kept == SelectSeq(model_emoji, LAMBDA e : e \in fb)
         IN Take(Dedup(kept \o fallback_emoji), MAX_EMOJI)
    ELSE fallback_emoji

reconcile_emoji(model_emoji, fallback_emoji) ==
    IF model_emoji # <<>>
    THEN LET fb == Range(fallback_emoji)
             kept == SelectSeq(model_emoji, LAMBDA e : e \in fb \/ e \in SAFE_EMOJI)
         IN Take(Dedup(kept \o fallback_emoji), MAX_EMOJI)
    ELSE fallback_emoji

NoErr == [kind |-> "none", status |-> "", text |-> ""]
Err(kind, status, txt) == [kind |-> kind, status |-> status, text |-> txt]

Returned(v) == [kind |-> "return", v |-> v, err |-> NoErr]
Raised(err) == [kind |-> "raise", v |-> NoValue, err |-> err]

\* a reply of the chat endpoint: its kind and, for "ok", the content
DirectReply(kind, mt) == [kind |-> kind, text |-> mt, embedding |-> <<>>]

DirectTagReplies ==
    {DirectReply(k, EmptyText) : k \in {"http_error", "bad_body", "content_not_str"}}
    \cup {DirectReply("ok", mt) : mt \in ModelTexts}

DirectEmbedReplies ==
    {DirectReply("http_error", EmptyText), DirectReply("bad_body", EmptyText),
     DirectReply("not_list", EmptyText), DirectReply("ok", EmptyText),
     [kind |-> "ok", text |-> EmptyText, embedding |-> <<10, -20>>]}

\* the one element of a singleton: binds a computed value before it is used
TheOnly(S) == CHOOSE x \in S : TRUE

ollama_generate_tags(reply, text, candidates) ==
    IF reply.kind = "http_error" THEN Raised(Err("direct", "", "ClientResponseError"))
    ELSE IF reply.kind = "bad_body" THEN Raised(Err("direct", "", "AttributeError"))
    ELSE IF reply.kind = "content_not_str" THEN Raised(Err("direct", "", "TypeError"))
    ELSE LET parsed == ollama_extract_json(reply.text)
         IN IF ~parsed.ok \/ parsed.fields.isEmptyDict
            THEN LET fallback_tags == candidates
                     fallback_code == _fallback_code(fallback_tags, text)
                     code_norm == _merge_code(_normalize_code(EmptyDict), fallback_code)
                 IN TheOnly({Returned([tags |-> fallback_tags,
                                       emoji |-> _fallback_emoji(fallback_tags, c, text),
                                       code |-> c, embedding |-> <<>>]) :
                             c \in {code_norm}})
            ELSE LET f == parsed.fields
                     emoji_list == ollama_emoji_list(f)
                     code_raw == IF f.codeIsDict THEN f.code ELSE EmptyDict
                     tags_list == IF f.tagsIsList THEN f.tags ELSE <<>>
                     fallback_code == _fallback_code(tags_list, text)
                     code_norm == _merge_code(_normalize_code(code_raw), fallback_code)
                 IN IF _normalize_code_exc(code_raw) # "none"
                    THEN Raised(Err("direct", "", _normalize_code_exc(code_raw)))
                    ELSE TheOnly({Returned([tags |-> tags_list,
                                            emoji |-> reconcile_emoji(emoji_list,
                                                _fallback_emoji(tags_list, c, text)),
                                            code |-> c, embedding |-> <<>>]) :
                                  c \in {code_norm}})

ollama_embed_text(reply) ==
    IF reply.kind = "http_error" THEN Raised(Err("direct", "", "ClientResponseError"))
    ELSE IF reply.kind = "bad_body" THEN Raised(Err("direct", "", "AttributeError"))
    ELSE IF reply.kind = "not_list" THEN Returned(NoValue)
    ELSE Returned([NoValue EXCEPT !.embedding = reply.embedding])

(***************************************************************************)
(* The queued-job protocol: _enqueue_job and one turn of _wait_job_result. *)
(***************************************************************************)
StrId(v) == [t |-> "str", v |-> v]
NonStrId == [t |-> "int", v |-> "7"]       \* {"job_id": 7}
NoId == [t |-> "null", v |-> ""]           \* no "job_id" in the body

EnqueueReply(exc, http, body, job_id) ==
    [exc |-> exc, http |-> http, body |-> body, job_id |-> job_id]

EnqueueReplies ==
    {EnqueueReply(TRUE, 0, "none", NoId)}
    \cup {EnqueueReply(FALSE, h, "object", StrId("abc")) : h \in {200, 201, 202, 500}}
    \cup {EnqueueReply(FALSE, 200, b, NoId) : b \in {"invalid_json", "not_object", "object"}}
    \cup {EnqueueReply(FALSE, 202, "object", j) : j \in {StrId(""), NonStrId}}

\* an enqueue that takes any reply of status 200 or 202 as a job
enqueue_job_unchecked_id(reply) ==
    IF reply.exc THEN [ok |-> FALSE, job_id |-> "", err |-> Err("enqueue", "", "ClientError")]
    ELSE IF reply.http \notin {200, 202}
    THEN [ok |-> FALSE, job_id |-> "", err |-> Err("enqueue", "", "enqueue failed status")]
    ELSE [ok |-> TRUE, job_id |-> reply.job_id.v, err |-> NoErr]

_enqueue_job(reply) ==
    IF reply.exc THEN [ok |-> FALSE, job_id |-> "", err |-> Err("enqueue", "", "ClientError")]
    ELSE IF reply.http \notin {200, 202}
    THEN [ok |-> FALSE, job_id |-> "", err |-> Err("enqueue", "", "enqueue failed status")]
    ELSE IF reply.body = "invalid_json"
    THEN [ok |-> FALSE, job_id |-> "", err |-> Err("enqueue", "", "enqueue returned invalid json")]
    ELSE IF reply.body = "not_object"
    THEN [ok |-> FALSE, job_id |-> "", err |-> Err("enqueue", "", "AttributeError")]
    ELSE IF reply.job_id.t # "str" \/ reply.job_id.v = ""
    THEN [ok |-> FALSE, job_id |-> "", err |-> Err("enqueue", "", "enqueue missing job_id")]
    ELSE [ok |-> TRUE, job_id |-> reply.job_id.v, err |-> NoErr]

\* str(...).lower() of the statuses met
Lower(s) == CASE s = "RUNNING" -> "running"
              [] s = "Done" -> "done"
              [] OTHER -> s

PollReply(exc, http, body, status, resultIsDict, result, error) ==
    [exc |-> exc, http |-> http, body |-> body, status |-> status,
     resultIsDict |-> resultIsDict, result |-> result, error |-> error]

NoReply == PollReply(FALSE, 0, "none", "", FALSE, NoResult, "")

NonTerminalStatuses == {"queued", "RUNNING", ""}
FailedStatuses == {"failed", "error", "cancelled", "canceled"}

PollReplies(results) ==
    {PollReply(TRUE, 0, "none", "", FALSE, NoResult, ""),
     PollReply(FALSE, 500, "object", "done", TRUE, NoResult, ""),
     PollReply(FALSE, 200, "invalid_json", "", FALSE, NoResult, ""),
     PollReply(FALSE, 200, "not_object", "", FALSE, NoResult, ""),
     PollReply(FALSE, 200, "object", "done", FALSE, NoResult, "")}
    \cup {PollReply(FALSE, 200, "object", s, FALSE, NoResult, "") : s \in NonTerminalStatuses}
    \cup {PollReply(FALSE, 200, "object", "done", TRUE, r, "") : r \in results}
    \cup {PollReply(FALSE, 200, "object", "Done", TRUE, NoResult, "")}
    \cup {PollReply(FALSE, 200, "object", s, FALSE, NoResult, "out of memory") :
            s \in FailedStatuses}
    \cup {PollReply(FALSE, 200, "object", "failed", FALSE, NoResult, "")}

\* a turn that reports every failed job as "job failed", the remote text lost
poll_once_text_lost(reply) ==
    IF reply.exc
    THEN [kind |-> "raise", result |-> NoResult, err |-> Err("job_read", "", "ClientError")]
    ELSE IF reply.http # 200 \/ reply.body # "object"
    THEN [kind |-> "raise", result |-> NoResult, err |-> Err("job_read", "", "job read failed")]
    ELSE LET status == Lower(reply.status)
         IN IF status = "done" /\ reply.resultIsDict
            THEN [kind |-> "return", result |-> reply.result, err |-> NoErr]
            ELSE IF status = "done" \/ status \in FailedStatuses
            THEN [kind |-> "raise", result |-> NoResult,
                  err |-> Err("job_failed", status, "job failed")]
            ELSE [kind |-> "continue", result |-> NoResult, err |-> NoErr]

\* one turn of the loop of _wait_job_result, lines 131-149
poll_once(reply) ==
    IF reply.exc
    THEN [kind |-> "raise", result |-> NoResult, err |-> Err("job_read", "", "ClientError")]
    ELSE IF reply.http # 200
    THEN [kind |-> "raise", result |-> NoResult, err |-> Err("job_read", "", "job read failed")]
    ELSE IF reply.body = "invalid_json"
    THEN [kind |-> "raise", result |-> NoResult, err |-> Err("job_read", "", "job returned invalid json")]
    ELSE IF reply.body = "not_object"
    THEN [kind |-> "raise", result |-> NoResult, err |-> Err("job_read", "", "AttributeError")]
    ELSE LET status == Lower(reply.status)
         IN IF status = "done"
            THEN IF reply.resultIsDict
                 THEN [kind |-> "return", result |-> reply.result, err |-> NoErr]
                 ELSE [kind |-> "raise", result |-> NoResult,
                       err |-> Err("bad_result", status, "job done without structured result")]
            ELSE IF status \in FailedStatuses
            THEN [kind |-> "raise", result |-> NoResult,
                  err |-> Err("job_failed", status,
                              IF reply.error # "" THEN reply.error ELSE "job failed")]
            ELSE [kind |-> "continue", result |-> NoResult, err |-> NoErr]

\* a timeout without the floor
job_timeout_no_floor(timeout_sec) == timeout_sec * TicksPerSec

\* timeout = max(3, timeout_sec), in ticks
job_timeout(timeout_sec) == Max2(TimeoutFloorSec, timeout_sec) * TicksPerSec

(***************************************************************************)
(* Tag strings (worker/tagging.py).  A string is the sequence of its       *)
(* characters; a character is known by its alphabet a, its name c and its  *)
(* case up.  Cyrillic letters are named by their transliteration; yo is    *)
(* the letter outside the ranges A-YA and a-ya of the regular expressions. *)
(***************************************************************************)
Ch(a, c, up) == [a |-> a, c |-> c, up |-> up]

LatWord(names) == [i \in 1..Len(names) |-> Ch("lat", names[i], FALSE)]
CyrWord(names) == [i \in 1..Len(names) |-> Ch("cyr", names[i], FALSE)]
DigitWord(names) == [i \in 1..Len(names) |-> Ch("digit", names[i], FALSE)]
Sym(c) == <<Ch("sym", c, FALSE)>>
SP == Ch("ws", " ", FALSE)
TAB == Ch("ws", "tab", FALSE)
YoLower == <<Ch("yo", "e", FALSE)>>

Cased(ch) == ch.a \in {"lat", "cyr", "yo"}
IsSpace(ch) == ch.a = "ws"

\* str.upper(), str.lower()
str_upper(s) == [i \in 1..Len(s) |-> IF Cased(s[i]) THEN [s[i] EXCEPT !.up = TRUE] ELSE s[i]]
str_lower(s) == [i \in 1..Len(s) |-> IF Cased(s[i]) THEN [s[i] EXCEPT !.up = FALSE] ELSE s[i]]

\* s[:1].upper() + s[1:]
Capitalized(s) == IF s = <<>> THEN s ELSE str_upper(SubSeq(s, 1, 1)) \o SubSeq(s, 2, Len(s))

\* str.isupper(), str.islower(): a cased character, and none of the other case
isupper(s) ==
    /\ \E i \in 1..Len(s) : Cased(s[i])
    /\ \A i \in 1..Len(s) : Cased(s[i]) => s[i].up
islower(s) ==
    /\ \E i \in 1..Len(s) : Cased(s[i])
    /\ \A i \in 1..Len(s) : Cased(s[i]) => ~s[i].up

\* str.strip(chars): the characters of the set are removed from both ends
StripOf(s, chars) ==
    LET keep == {i \in 1..Len(s) : s[i] \notin chars}
    IN IF keep = {} THEN <<>>
       ELSE SubSeq(s, CHOOSE i \in keep : \A j \in keep : i <= j,
                      CHOOSE i \in keep : \A j \in keep : j <= i)

WhiteSpace == {SP, TAB}

\* str.strip()
str_strip(s) == StripOf(s, WhiteSpace)

\* the characters of tag.strip(...), line 373: white space, the three quotes
\* and the brackets
EdgeChars ==
    WhiteSpace \cup {Ch("sym", c, FALSE) : c \in {"dquote", "quote", "backquote", "(", ")",
                                                  "[", "]", "{", "}", "<", ">"}}

\* re.sub(r"\s+", " ", s)
collapse_spaces(s) ==
    LET idx == SelectSeq([i \in 1..Len(s) |-> i],
                         LAMBDA i : ~IsSpace(s[i]) \/ i = 1 \/ ~IsSpace(s[i - 1]))
    IN [k \in 1..Len(idx) |-> IF IsSpace(s[idx[k]]) THEN SP ELSE s[idx[k]]]

\* .replace(u2011, "-").replace(u2013, "-").replace(u2014, "-"): the hyphen and dashes
Dashes == {Ch("sym", c, FALSE) : c \in {"u2011", "u2013", "u2014"}}
replace_dashes(s) == [i \in 1..Len(s) |-> IF s[i] \in Dashes THEN Ch("sym", "-", FALSE) ELSE s[i]]

startswith(s, prefix) == Len(s) >= Len(prefix) /\ SubSeq(s, 1, Len(prefix)) = prefix
endswith(s, suffix) ==
    Len(s) >= Len(suffix) /\ SubSeq(s, Len(s) - Len(suffix) + 1, Len(s)) = suffix

\* s.split(sep) for a separator of one character
RECURSIVE Split(_, _)
Split(s, sep) ==
    LET at == {i \in 1..Len(s) : s[i] = sep}
    IN IF at = {} THEN <<s>>
       ELSE LET i == CHOOSE i \in at : \A j \in at : i <= j
            IN <<SubSeq(s, 1, i - 1)>> \o Split(SubSeq(s, i + 1, Len(s)), sep)

\* sep.join(parts)
RECURSIVE Join(_, _)
Join(parts, sep) ==
    IF parts = <<>> THEN <<>>
    ELSE IF Len(parts) = 1 THEN parts[1]
    ELSE parts[1] \o <<sep>> \o Join(Tail(parts), sep)

\* re.fullmatch(r"[class]+", s)
AllIn(s, InClass(_)) == s # <<>> /\ \A i \in 1..Len(s) : InClass(s[i])

IsDigit(ch) == ch.a = "digit"
IsLatin(ch) == ch.a = "lat"
SymIn(ch, names) == ch.a = "sym" /\ ch.c \in names

\* [A-Za-zA-YAa-ya0-9 ./&()+-]
TagChar(ch) ==
    \/ ch.a \in {"lat", "cyr", "digit"}
    \/ ch = SP
    \/ SymIn(ch, {".", "/", "&", "(", ")", "+", "-"})

\* [A-ZA-YA0-9./&-], [A-Z0-9./&-], [A-YA0-9./&-]
UpperCodeChar(ch) ==
    (ch.a \in {"lat", "cyr"} /\ ch.up) \/ IsDigit(ch) \/ SymIn(ch, {".", "/", "&", "-"})
LatUpperCodeChar(ch) ==
    (ch.a = "lat" /\ ch.up) \/ IsDigit(ch) \/ SymIn(ch, {".", "/", "&", "-"})
CyrUpperCodeChar(ch) ==
    (ch.a = "cyr" /\ ch.up) \/ IsDigit(ch) \/ SymIn(ch, {".", "/", "&", "-"})

\* re.fullmatch(r"[A-ZA-YA]{2,}\\s?[0-9]+", s): in the raw string \\ is a
\* backslash character, followed by an optional letter s
UpperBackslashDigits(s) ==
    \E i \in 2..Len(s) :
        /\ \A j \in 1..i : s[j].a \in {"lat", "cyr"} /\ s[j].up
        /\ i + 1 <= Len(s) /\ s[i + 1] = Ch("sym", "backslash", FALSE)
        /\ \E d \in {i + 2, i + 3} :
              /\ d <= Len(s)
              /\ (d = i + 3 => s[i + 2] = Ch("lat", "s", FALSE))
              /\ \A j \in d..Len(s) : IsDigit(s[j])

\* re.fullmatch(r"[0-9]+([.,][0-9]+)?", s)
IsNumber(s) ==
    \/ AllIn(s, IsDigit)
    \/ \E i \in 2..(Len(s) - 1) :
          /\ SymIn(s[i], {".", ","})
          /\ \A j \in 1..Len(s) : j # i => IsDigit(s[j])

\* _CYR_TO_LAT, lines 235-269: the Latin letters of a Cyrillic letter; the
\* soft and the hard sign are not in the table
CyrToLat(ch) ==
    CASE ch.a = "yo" -> LatWord(<<"e">>)
      [] ch.a = "cyr" /\ ch.c \in {"soft", "hard"} -> <<ch>>
      [] ch.a = "cyr" /\ ch.c = "zh" -> LatWord(<<"z", "h">>)
      [] ch.a = "cyr" /\ ch.c = "ts" -> LatWord(<<"t", "s">>)
      [] ch.a = "cyr" /\ ch.c = "ch" -> LatWord(<<"c", "h">>)
      [] ch.a = "cyr" /\ ch.c \in {"sh", "shch"} -> LatWord(<<"s", "h">>)
      [] ch.a = "cyr" /\ ch.c = "yu" -> LatWord(<<"y", "u">>)
      [] ch.a = "cyr" /\ ch.c = "ya" -> LatWord(<<"y", "a">>)
      [] ch.a = "cyr" /\ ch.c = "j" -> LatWord(<<"i">>)
      [] ch.a = "cyr" /\ ch.c = "eh" -> LatWord(<<"e">>)
      [] ch.a = "cyr" -> LatWord(<<ch.c>>)
      [] OTHER -> <<ch>>

RECURSIVE Translate(_)
Translate(s) == IF s = <<>> THEN <<>> ELSE CyrToLat(s[1]) \o Translate(Tail(s))

\* _fold_key, lines 272-274
_fold_key(s) == Translate(str_lower(s))

(***************************************************************************)
(* worker/tagging.py: the tables (the entries the model's tags meet) and   *)
(* normalize_tag, normalize_tags, _merge_compounds, _filter_generic,       *)
(* build_alias_map.                                                        *)
(***************************************************************************)
Hash == Ch("sym", "#", FALSE)
Hyphen == Ch("sym", "-", FALSE)

\* words, written in lower case
W_rost == CyrWord(<<"r", "o", "s", "t">>)
W_ozon == CyrWord(<<"o", "z", "o", "n">>)
W_ozona == CyrWord(<<"o", "z", "o", "n", "a">>)
W_bpla == CyrWord(<<"b", "p", "l", "a">>)
W_cb == CyrWord(<<"ts", "b">>)
W_rynok == CyrWord(<<"r", "y", "n", "o", "k">>)
W_rynki == CyrWord(<<"r", "y", "n", "k", "i">>)
W_novosti == CyrWord(<<"n", "o", "v", "o", "s", "t", "i">>)
W_novost == CyrWord(<<"n", "o", "v", "o", "s", "t", "soft">>)
W_biznes == CyrWord(<<"b", "i", "z", "n", "e", "s">>)
W_byudzhet == CyrWord(<<"b", "yu", "d", "zh", "e", "t">>)
W_cena == CyrWord(<<"ts", "e", "n", "a">>)
W_start == CyrWord(<<"s", "t", "a", "r", "t">>)
W_pogoda == CyrWord(<<"p", "o", "g", "o", "d", "a">>)
W_gazprom == CyrWord(<<"g", "a", "z", "p", "r", "o", "m">>)
W_sber == CyrWord(<<"s", "b", "e", "r">>)
W_lukoil == CyrWord(<<"l", "u", "k", "o", "j", "l">>)
W_valyutnye == CyrWord(<<"v", "a", "l", "yu", "t", "n", "y", "e">>)
W_valyutnyi == CyrWord(<<"v", "a", "l", "yu", "t", "n", "y", "j">>)
W_pervichnyi == CyrWord(<<"p", "e", "r", "v", "i", "ch", "n", "y", "j">>)
W_vtorichnyi == CyrWord(<<"v", "t", "o", "r", "i", "ch", "n", "y", "j">>)
W_bumagi == CyrWord(<<"b", "u", "m", "a", "g", "i">>)
W_bumaga == CyrWord(<<"b", "u", "m", "a", "g", "a">>)
W_novyi == CyrWord(<<"n", "o", "v", "y", "j">>)
W_sektor == CyrWord(<<"s", "e", "k", "t", "o", "r">>)
W_bank == CyrWord(<<"b", "a", "n", "k">>)
W_lka == CyrWord(<<"l", "k", "a">>)

\* DEFAULT_ALIASES, lines 7-62: alias and canonical
DEFAULT_ALIASES ==
    << <<W_cb, str_upper(W_cb)>>,
       <<W_bpla, str_upper(W_bpla)>>,
       <<W_rynki, Capitalized(W_rynok)>>,
       <<W_ozona, Capitalized(W_ozon)>>,
       <<LatWord(<<"i", "p", "o">>), str_upper(LatWord(<<"i", "p", "o">>))>>,
       <<LatWord(<<"v", "a", "l", "u", "t", "n", "y", "e">>), Capitalized(W_valyutnye)>> >>

\* _STOP_TAGS, lines 64-124
_STOP_TAGS == {W_sektor, W_rost, CyrWord(<<"n", "a">>), LatWord(<<"l", "i", "v", "e">>)}

\* _GENERIC_TAGS, lines 126-149
_GENERIC_TAGS == {W_rynok, W_pogoda, W_novosti, W_biznes, W_byudzhet, W_cena, W_start}

\* _ADJ_ENDINGS, lines 151-168
_ADJ_ENDINGS ==
    {CyrWord(e) : e \in {<<"a", "ya">>, <<"ya", "ya">>, <<"o", "e">>, <<"e", "e">>,
                         <<"y", "j">>, <<"i", "j">>, <<"y", "e">>, <<"i", "e">>,
                         <<"o", "j">>, <<"o", "g", "o">>, <<"e", "g", "o">>,
                         <<"e", "m", "u">>, <<"i", "m", "i">>, <<"y", "m", "i">>,
                         <<"y", "m">>, <<"u", "yu">>}}

\* _VERB_ENDINGS, lines 170-178
_VERB_ENDINGS ==
    {CyrWord(e) : e \in {<<"l", "s", "ya">>, <<"l", "a", "s", "soft">>,
                         <<"l", "i", "s", "soft">>, <<"l", "o", "s", "soft">>,
                         <<"l", "i">>, <<"l", "o">>, <<"l", "a">>}}

\* _ADJ_KEEP, lines 180-185
_ADJ_KEEP == {W_pervichnyi, W_vtorichnyi, W_valyutnye, W_valyutnyi}

\* _DROP_PREFIXES, lines 187-195
_DROP_PREFIXES ==
    << Capitalized(W_rost),
       Capitalized(CyrWord(<<"s", "n", "i", "zh", "e", "n", "i", "e">>)),
       Capitalized(CyrWord(<<"p", "a", "d", "e", "n", "i", "e">>)),
       Capitalized(CyrWord(<<"u", "v", "e", "l", "i", "ch", "e", "n", "i", "e">>)),
       Capitalized(CyrWord(<<"s", "o", "k", "r", "a", "shch", "e", "n", "i", "e">>)),
       Capitalized(CyrWord(<<"u", "m", "e", "n", "soft", "sh", "e", "n", "i", "e">>)),
       Capitalized(CyrWord(<<"p", "o", "v", "y", "sh", "e", "n", "i", "e">>)) >>

\* morph.parse(word)[0].normal_form of the analyzer, for the model's words
normal_form(word) ==
    CASE word = W_novosti -> W_novost
      [] word = W_bumagi -> W_bumaga
      [] word = W_valyutnye -> W_valyutnyi
      [] OTHER -> word

\* add of build_alias_map, lines 280-286
alias_add(aliases, alias, canonical) ==
    LET a == str_strip(alias)
        c == str_strip(canonical)
        keys == {str_lower(a), _fold_key(a)}
    IN IF a = <<>> \/ c = <<>> THEN aliases
       ELSE [k \in (DOMAIN aliases) \cup keys |-> IF k \in keys THEN c ELSE aliases[k]]

RECURSIVE alias_add_all(_, _)
alias_add_all(aliases, pairs) ==
    IF pairs = <<>> THEN aliases
    ELSE alias_add_all(alias_add(aliases, pairs[1][1], pairs[1][2]), Tail(pairs))

NoAliases == [k \in {} |-> <<>>]

\* the override data, read by json.loads: form "none" (no data), "invalid"
\* (JSONDecodeError), "dict" with entries <<key, value>> where a value is
\* [t |-> "str", s |-> string], [t |-> "list", items |-> strings and ObjItem]
\* or [t |-> "other"], "list" with entries [isDict, alias, canonical]
JsonStr(s) == [t |-> "str", s |-> s, items |-> <<>>]
JsonList(items) == [t |-> "list", s |-> <<>>, items |-> items]

\* the add calls of one entry of a dict, lines 295-301
dict_entry_pairs(entry) ==
    LET key == entry[1]
        value == entry[2]
    IN IF value.t = "list"
       THEN LET strs == SelectSeq(value.items, LAMBDA item : item # ObjItem)
            IN [i \in 1..Len(strs) |-> <<strs[i], key>>]
       ELSE IF value.t = "str" THEN << <<key, value.s>> >>
       ELSE <<>>

RECURSIVE override_pairs(_, _)
override_pairs(form, entries) ==
    IF entries = <<>> THEN <<>>
    ELSE (IF form = "dict" THEN dict_entry_pairs(entries[1])
          ELSE IF entries[1].isDict
               THEN << <<str_strip(entries[1].alias), str_strip(entries[1].canonical)>> >>
               ELSE <<>>)
         \o override_pairs(form, Tail(entries))

\* build_alias_map, lines 277-314
build_alias_map(raw_json) ==
    LET defaults == alias_add_all(NoAliases, DEFAULT_ALIASES)
    IN IF raw_json.form \in {"dict", "list"}
       THEN alias_add_all(defaults, override_pairs(raw_json.form, raw_json.entries))
       ELSE defaults

\* one token of _title_case, lines 322-333
title_token(token) ==
    IF isupper(token) THEN token
    ELSE LET subs == SelectSeq(Split(token, Hyphen), LAMBDA x : x # <<>>)
         IN Join([i \in 1..Len(subs) |->
                     IF isupper(subs[i]) THEN subs[i] ELSE Capitalized(subs[i])],
                 Hyphen)

\* _title_case, lines 317-334
_title_case(s) ==
    LET tokens == SelectSeq(Split(s, SP), LAMBDA t : t # <<>>)
    IN Join([i \in 1..Len(tokens) |-> title_token(tokens[i])], SP)

\* _is_single_word, lines 337-338
_is_single_word(tag) == SP \notin Range(tag) /\ Hyphen \notin Range(tag)

\* _is_stop_tag, lines 341-355
_is_stop_tag(tag) ==
    LET lowered == str_lower(tag)
    IN IF lowered \in _STOP_TAGS THEN TRUE
       ELSE IF ~_is_single_word(tag) THEN FALSE
       ELSE IF lowered \in _ADJ_KEEP THEN FALSE
       ELSE \/ endswith(lowered, CyrWord(<<"s", "ya">>))
            \/ \E e \in _VERB_ENDINGS : endswith(lowered, e)
            \/ \E e \in _ADJ_ENDINGS : endswith(lowered, e)

\* None of normalize_tag; normalize_tags takes None and "" alike (if not tag)
NoTag == <<>>

\* lines 410-421: the lemma of a capitalized single word, the stop tags, the
\* title case
normalize_tag_word(tag, morph) ==
    LET lemma == normal_form(str_lower(tag))
        tag2 == IF /\ morph
                   /\ _is_single_word(tag)
                   /\ isupper(SubSeq(tag, 1, 1))
                   /\ islower(SubSeq(tag, 2, Len(tag)))
                   /\ lemma # str_lower(tag)
                THEN _title_case(lemma) ELSE tag
    IN IF _is_stop_tag(tag2) THEN NoTag ELSE _title_case(tag2)

\* lines 384-408: the character class, the aliases, digits, Latin letters and
\* upper-case codes
normalize_tag_checked(tag, aliases, morph) ==
    IF ~AllIn(tag, TagChar) THEN NoTag
    ELSE IF str_lower(tag) \in DOMAIN aliases THEN aliases[str_lower(tag)]
    ELSE IF _fold_key(tag) \in DOMAIN aliases THEN aliases[_fold_key(tag)]
    ELSE IF /\ \E i \in 1..Len(tag) : IsDigit(tag[i])
            /\ ~AllIn(tag, UpperCodeChar)
            /\ ~UpperBackslashDigits(tag)
         THEN NoTag
    ELSE IF IsNumber(tag) THEN NoTag
    ELSE IF \E i \in 1..Len(tag) : IsLatin(tag[i])
         THEN (IF AllIn(tag, LatUpperCodeChar) THEN tag ELSE NoTag)
    ELSE IF AllIn(tag, LatUpperCodeChar) \/ AllIn(tag, CyrUpperCodeChar) THEN tag
    ELSE normalize_tag_word(tag, morph)

\* a clean-up that leaves the descriptive prefix in place
normalize_tag_keep_prefix(tag, aliases, morph) ==
    normalize_tag_checked(tag, aliases, morph)

\* lines 372-383: dashes, edge characters, white space, the descriptive prefix
normalize_tag_cleaned(tag, aliases, morph) ==
    LET lowered == str_lower(tag)
        found == SelectSeq(_DROP_PREFIXES,
                           LAMBDA p : startswith(lowered, Append(str_lower(p), SP)))
    IN IF found = <<>> THEN normalize_tag_checked(tag, aliases, morph)
       ELSE LET rest == str_strip(SubSeq(tag, Len(found[1]) + 2, Len(tag)))
            IN IF rest = <<>> THEN NoTag
               ELSE normalize_tag_checked(_title_case(rest), aliases, morph)

\* lines 365-370: the leading #
normalize_tag_hash(tag, aliases, morph) ==
    LET t == IF tag[1] = Hash THEN str_strip(Tail(tag)) ELSE tag
    IN IF t = <<>> THEN NoTag
       ELSE normalize_tag_cleaned(
                collapse_spaces(StripOf(replace_dashes(t), EdgeChars)), aliases, morph)

\* normalize_tag, lines 358-428; morph: the analyzer is installed
normalize_tag(raw, aliases, morph) ==
    LET tag == str_strip(raw)
    IN IF tag = <<>> THEN NoTag
       ELSE IF Len(tag) <= 2 /\ ~isupper(tag) THEN NoTag
       ELSE normalize_tag_hash(tag, aliases, morph)

\* ("Valyutnye", "Bumagi", "Valyutnye Bumagi") and the two others, lines 446-450
CompoundMerges ==
    << [left |-> Capitalized(W_valyutnye), right |-> Capitalized(W_bumagi),
        combined |-> Capitalized(W_valyutnye) \o <<SP>> \o Capitalized(W_bumagi)],
       [left |-> Capitalized(W_pervichnyi), right |-> Capitalized(W_rynok),
        combined |-> Capitalized(W_pervichnyi) \o <<SP>> \o Capitalized(W_rynok)],
       [left |-> Capitalized(W_vtorichnyi), right |-> Capitalized(W_rynok),
        combined |-> Capitalized(W_vtorichnyi) \o <<SP>> \o Capitalized(W_rynok)] >>

\* lines 451-456: tag_set after the merges, one after the other
RECURSIVE merged_tag_set(_, _)
merged_tag_set(tag_set, merges) ==
    IF merges = <<>> THEN tag_set
    ELSE LET m == merges[1]
         IN merged_tag_set(IF m.left \in tag_set /\ m.right \in tag_set
                           THEN (tag_set \ {m.left, m.right}) \cup {m.combined}
                           ELSE tag_set,
                           Tail(merges))

\* _merge_compounds, lines 445-468
_merge_compounds(tags) ==
    LET tag_set == merged_tag_set(Range(tags), CompoundMerges)
        kept == Dedup(SelectSeq(tags, LAMBDA t : t \in tag_set))
        combined == SelectSeq([i \in 1..Len(CompoundMerges) |-> CompoundMerges[i].combined],
                              LAMBDA c : c \in tag_set /\ c \notin Range(kept))
    IN kept \o Dedup(combined)

\* a filter that prunes however few tags are left
filter_generic_always(tags) ==
    SelectSeq(tags, LAMBDA t : str_lower(t) \notin _GENERIC_TAGS)

\* _filter_generic, lines 472-478
_filter_generic(tags) ==
    IF Len(tags) <= 6 THEN tags
    ELSE LET filtered == SelectSeq(tags, LAMBDA t : str_lower(t) \notin _GENERIC_TAGS)
         IN IF Len(filtered) >= 3 THEN filtered ELSE tags

\* the loop of normalize_tags, lines 432-442: result
normalize_tags_result(raw_tags, aliases, morph) ==
    LET given == SelectSeq(raw_tags, LAMBDA raw : raw # <<>>)
        tags == [i \in 1..Len(given) |-> normalize_tag(given[i], aliases, morph)]
    IN Dedup(SelectSeq(tags, LAMBDA t : t # NoTag))

\* normalize_tags, lines 431-443
normalize_tags(raw_tags, aliases, morph) ==
    _filter_generic(_merge_compounds(normalize_tags_result(raw_tags, aliases, morph)))

(***************************************************************************)
(* Raw tags, raw tag lists and override data the tag functions are called  *)
(* with.                                                                   *)
(***************************************************************************)
MaxRawTags == 2     \* the longest list drawn freely from RawTagSamples

Raw_HashRostOzona == <<Hash>> \o Capitalized(W_rost) \o <<SP>> \o Capitalized(W_ozona)
Raw_BPLA == str_upper(W_bpla)
Raw_12345 == DigitWord(<<"1", "2", "3", "4", "5">>)
Raw_Rynki == Capitalized(W_rynki)
Raw_ozona == LatWord(<<"o", "z", "o", "n", "a">>)
Raw_cs_go == LatWord(<<"c", "s">>) \o <<SP>> \o LatWord(<<"g", "o">>)
Raw_USD_RUB == str_upper(LatWord(<<"u", "s", "d">>)) \o Sym("/") \o str_upper(LatWord(<<"r", "u", "b">>))
Raw_Apple == Capitalized(LatWord(<<"a", "p", "p", "l", "e">>))
Raw_Yolka == str_upper(YoLower) \o W_lka
Raw_QuotedOzona == Sym("dquote") \o Capitalized(W_ozona) \o <<TAB>> \o Sym("dquote")
Raw_rost == W_rost
Raw_Novyi == Capitalized(W_novyi)
Raw_T_Bank == str_upper(CyrWord(<<"t">>)) \o Sym("u2011") \o Capitalized(W_bank)
Raw_Blank == <<SP, SP>>
Raw_Empty == <<>>
Raw_Novosti == Capitalized(W_novosti)
Raw_Valyutnye == Capitalized(W_valyutnye)
Raw_Bumagi == Capitalized(W_bumagi)
Raw_Pervichnyi == Capitalized(W_pervichnyi)

RawTagSamples ==
    {Raw_HashRostOzona, Raw_BPLA, Raw_12345, Raw_Rynki, Raw_ozona, Raw_cs_go,
     Raw_USD_RUB, Raw_Apple, Raw_Yolka, Raw_QuotedOzona, Raw_rost, Raw_Novyi,
     Raw_T_Bank, Raw_Blank, Raw_Empty, Raw_Novosti, Raw_Valyutnye, Raw_Bumagi,
     Raw_Pervichnyi}

\* tags a long list is made of: generic ones, other ones and the halves of compounds
RawTagPool ==
    << Raw_Novosti, Capitalized(W_biznes), Capitalized(W_gazprom),
       Capitalized(W_byudzhet), Raw_Valyutnye, Capitalized(W_cena),
       Capitalized(W_sber), Capitalized(W_start), Raw_Rynki, Raw_Bumagi,
       Capitalized(W_lukoil) >>

\* the items of a sequence at the positions of a set, in order
RECURSIVE SubList(_, _)
SubList(s, at) ==
    IF s = <<>> THEN <<>>
    ELSE SubList(SubSeq(s, 1, Len(s) - 1), at)
         \o (IF Len(s) \in at THEN <<s[Len(s)]>> ELSE <<>>)

\* ["#Rost Ozona", "BPLA", "12345"]
RawTagExample == <<Raw_HashRostOzona, Raw_BPLA, Raw_12345>>

RawTagLists ==
    UNION {[1..n -> RawTagSamples] : n \in 0..MaxRawTags}
    \cup {RawTagExample}
    \cup {SubList(RawTagPool, at) : at \in {S \in SUBSET (1..Len(RawTagPool)) :
                                             Cardinality(S) > MaxRawTags}}

\* the override data (the TAG_ALIASES setting): none; no JSON;
\* {"CS:GO": ["cs go", {}], "sbera": "Sber"}; [{"alias": "apple", "canonical": "Apple"}, "x"]
CS_GO == str_upper(LatWord(<<"c", "s">>)) \o Sym(":") \o str_upper(LatWord(<<"g", "o">>))

AliasOverrides ==
    { [form |-> "none", entries |-> <<>>],
      [form |-> "invalid", entries |-> <<>>],
      [form |-> "dict",
       entries |-> << <<CS_GO, JsonList(<<Raw_cs_go, ObjItem>>)>>,
                      <<LatWord(<<"s", "b", "e", "r", "a">>), JsonStr(Capitalized(W_sber))>> >>],
      [form |-> "list",
       entries |-> << [isDict |-> TRUE, alias |-> LatWord(<<"a", "p", "p", "l", "e">>),
                       canonical |-> Raw_Apple],
                      [isDict |-> FALSE, alias |-> <<>>, canonical |-> <<>>] >>] }

(***************************************************************************)
(* State of one call of llm_backend.generate_tags or llm_backend.embed_text*)
(***************************************************************************)
VARIABLES
    op,             \* "tags" (generate_tags) or "embed" (embed_text)
    cfg,            \* llm_backend, llm_backend_fallback_ollama, llm_backend_timeout_sec, max_count
    text,           \* the text argument
    candidates,     \* the candidates argument
    pc,             \* "idle", "enqueue", "wait", "direct", "done"
    elapsed,        \* time.monotonic() - started, in ticks, inside _wait_job_result
    polls,          \* status requests issued (GET /v1/jobs/{job_id})
    lastReply,      \* the reply to the last status request
    job,            \* the job id _enqueue_job returned, "" before
    failure,        \* the exception caught at line 251 (or 311), NoErr if none
    waitResult,     \* what _wait_job_result returned
    directCalls,    \* calls of the direct backend (ollama_client)
    directReply,    \* the reply the direct backend call got
    directOutcome,  \* what the direct backend call returned or raised
    outcome         \* what the call returned or raised to its caller

(***************************************************************************)
(* State of the worker process: the rows of the messages table and the     *)
(* tasks main() creates (worker/main.py over worker/db.py).                *)
(***************************************************************************)
VARIABLES
    messages,       \* id -> the row of the messages table (and what hangs on it)
    tagging_loop,   \* the task: pc, items still to go in the batch, exc caught
    embedding_loop, \* the task: pc, items still to go in the batch, exc caught
    status_loop,    \* the task: pc
    ingest_loop,    \* the task: pc
    tag_rate,       \* samples added to the tagging RateTracker
    embed_rate,     \* samples added to the embedding RateTracker
    mainPc          \* main(): "running", "cancelling", "gathered", "notified",
                    \*         "gateway_closed", "closed"

loopVars == <<messages, tagging_loop, embedding_loop, status_loop, ingest_loop,
              tag_rate, embed_rate, mainPc>>

(***************************************************************************)
(* State of the progress notifier (worker/telegram_notifier.py), of its    *)
(* callers and of the gateway as the notifier sees it.                     *)
(***************************************************************************)
VARIABLES
    notifier,       \* disabled, message_handle (0 is None), running, last_edit_ts,
                    \* task (the spinner task exists)
    clock,          \* asyncio.get_event_loop().time(), in ticks
    update_call,    \* the status loop inside update(): pc, now (the time it read)
    spin_task,      \* the task of _spin(): pc, now, wake (the end of its sleep)
    done_call,      \* main() inside done(): pc
    gateway_log,    \* what the gateway was asked: sends, created, last_edit and
                    \* the flags too_close, send_with_handle
    phase           \* "running", "stopping" (the tasks are cancelled), "off"

notifierVars == <<notifier, clock, update_call, spin_task, done_call, gateway_log,
                  phase>>

(***************************************************************************)
(* State of the gateway (worker/telegram_gateway.py): its configuration,   *)
(* the handles it has returned and its last call.                          *)
(***************************************************************************)
VARIABLES
    gateway         \* conf, handles, last (the call: op, handle, out, calls)

gatewayVars == <<gateway>>

(***************************************************************************)
(* State of one call of a function that keeps nothing between calls: the   *)
(* function with its arguments, and what it returned.                      *)
(***************************************************************************)
VARIABLES
    pure_call,      \* fn and the arguments
    pure_ret        \* the value returned (and the locals the return was made of)

pureVars == <<pure_call, pure_ret>>

(***************************************************************************)
(* State of one RateTracker (worker/main.py) and of its caller.            *)
(***************************************************************************)
VARIABLES
    rate_samples,   \* self.samples: the deque of (count, duration)
    rate_history,   \* every add(count, duration) called so far, in order
    rate_ret        \* what the call of rate() just made returned

rateVars == <<rate_samples, rate_history, rate_ret>>

(***************************************************************************)
(* State of one call of Db.save_tags (worker/db.py), of the two tables it  *)
(* writes and of a reader on another connection.                           *)
(***************************************************************************)
VARIABLES
    save_db,        \* the committed rows: tags (canonical), links (message_id, tag)
    save_call,      \* pc, message_id, tags, at, step, before and the rows the
                    \* open transaction has written
    save_reader     \* what the reader's last query returned

saveVars == <<save_db, save_call, save_reader>>

(***************************************************************************)
(* State of two runs of the tagging and embedding loops over the same      *)
(* items with the same answers of the backend and of the repository.       *)
(***************************************************************************)
VARIABLES
    two_runs,       \* run -> progress (the ProgressState), ops (the repository
                    \* operations and backend calls made so far), pos and stage
                    \* (the item in work and where its handling stands)
    pipeline        \* items (what the fetches return), differed (the two
                    \* ProgressStates differed when a loop went on)

runVars == <<two_runs, pipeline>>

unitVars == <<pureVars, rateVars, saveVars, runVars>>

backendVars == <<op, cfg, text, candidates, pc, elapsed, polls, lastReply, job,
                 failure, waitResult, directCalls, directReply, directOutcome,
                 outcome>>

RawBackends == {"llm_mcp", " Ollama ", "vllm"}

\* (value or "").strip().lower()
StripLower(value) == CASE value = " Ollama " -> "ollama"
                       [] OTHER -> value

_normalize_backend(value) ==
    LET backend == StripLower(value)
    IN IF backend \in {"ollama", "llm_mcp"} THEN backend ELSE "llm_mcp"

TimeoutSecs == {0, MaxTimeoutSec}

NoOutcome == [kind |-> "none", backend |-> "none", v |-> NoValue, err |-> NoErr]
NoDirect == [kind |-> "none", v |-> NoValue, err |-> NoErr]
NoDirectReply == DirectReply("none", EmptyText)

CandidateLists == {<<>>, <<"CB", "USD/RUB", "CB">>}

\* the backend client alone: no task of the worker is running
NoTask == [pc |-> "off", items |-> <<>>, exc |-> ""]

\* the gateway is not called
NoGatewayCall == [op |-> "none", handle |-> [tag |-> "none", id |-> 0],
                  out |-> [tag |-> "none", id |-> 0], updated |-> FALSE, calls |-> <<>>]

NoPureCall == [fn |-> "none"]
NoPureRet == [fn |-> "none"]

PureOff ==
    /\ pure_call = NoPureCall
    /\ pure_ret = NoPureRet

NoRate == [called |-> FALSE, none |-> TRUE, count |-> 0, time |-> 0]

RateOff ==
    /\ rate_samples = <<>>
    /\ rate_history = <<>>
    /\ rate_ret = NoRate

NoRows == [tags |-> {}, links |-> {}]

SaveOff ==
    /\ save_db = NoRows
    /\ save_call = [pc |-> "off"]
    /\ save_reader = [during |-> FALSE, rows |-> NoRows]

RunsOff ==
    /\ two_runs = <<>>
    /\ pipeline = [items |-> <<>>, differed |-> FALSE]

UnitsOff == PureOff /\ RateOff /\ SaveOff /\ RunsOff

GatewayOff ==
    gateway = [conf |-> [api |-> FALSE, api_legacy |-> FALSE, bot_id |-> FALSE,
                         fallback_direct |-> FALSE, direct_bot |-> FALSE],
               handles |-> {}, last |-> NoGatewayCall]

\* no notifier is configured
NotifierOff ==
    /\ notifier = [disabled |-> TRUE, message_handle |-> 0, running |-> FALSE,
                   last_edit_ts |-> 0, task |-> FALSE]
    /\ clock = 0
    /\ update_call = [pc |-> "off", now |-> 0]
    /\ spin_task = [pc |-> "none", now |-> 0, wake |-> 0]
    /\ done_call = "off"
    /\ gateway_log = [sends |-> 0, created |-> 0, last_edit |-> -1,
                      too_close |-> FALSE, send_with_handle |-> FALSE,
                      last_text |-> "none"]
    /\ phase = "off"

LoopsOff ==
    /\ messages = <<>>
    /\ tagging_loop = NoTask
    /\ embedding_loop = NoTask
    /\ status_loop = "off"
    /\ ingest_loop = "off"
    /\ tag_rate = 0
    /\ embed_rate = 0
    /\ mainPc = "off"

BackendInit ==
    /\ op \in {"tags", "embed"}
    /\ cfg \in [llm_backend : RawBackends,
                llm_backend_fallback_ollama : BOOLEAN,
                llm_backend_timeout_sec : TimeoutSecs,
                max_count : IF op = "tags" THEN 1..MaxCount ELSE {1}]
    /\ text \in IF op = "tags" THEN {TxtOil, TxtPlain} ELSE {TxtEmpty}
    /\ candidates \in IF op = "tags" THEN CandidateLists ELSE {<<>>}
    /\ pc = "idle"
    /\ elapsed = 0
    /\ polls = 0
    /\ lastReply = NoReply
    /\ job = ""
    /\ failure = NoErr
    /\ waitResult = NoResult
    /\ directCalls = 0
    /\ directReply = NoDirectReply
    /\ directOutcome = NoDirect
    /\ outcome = NoOutcome
    /\ LoopsOff
    /\ NotifierOff
    /\ GatewayOff
    /\ UnitsOff

\* lines 180-183 (282-284): the backend is chosen
Call ==
    /\ pc = "idle"
    /\ pc' = IF _normalize_backend(cfg.llm_backend) = "llm_mcp" THEN "enqueue"
             ELSE "direct"
    /\ UNCHANGED <<op, cfg, text, candidates, elapsed, polls, lastReply, job,
                   failure, waitResult, directCalls, directReply, directOutcome,
                   outcome>>
    /\ UNCHANGED <<loopVars, notifierVars, gatewayVars, unitVars>>

\* an except handler that falls through to the direct backend whatever the flag
mcp_failed_flag_ignored(err) ==
    /\ failure' = err
    /\ pc' = "direct"
    /\ outcome' = outcome

\* except Exception, lines 251-254 (311-314): re-raise, or fall through to
\* the direct backend
mcp_failed(err) ==
    /\ failure' = err
    /\ IF cfg.llm_backend_fallback_ollama
       THEN pc' = "direct" /\ outcome' = outcome
       ELSE /\ pc' = "done"
            /\ outcome' = [kind |-> "raise", backend |-> "llm_mcp",
                           v |-> NoValue, err |-> err]

\* return tags, emoji, code, meta (line 250); return embedding (line 309)
mcp_returned(v) ==
    /\ failure' = failure
    /\ pc' = "done"
    /\ outcome' = [kind |-> "return", backend |-> "llm_mcp", v |-> v, err |-> NoErr]

\* the rest of the try block once _run_llm_task has returned
mcp_finish(result) ==
    LET r == IF op = "tags"
             THEN mcp_generate_tags_result(result, candidates, cfg.max_count)
             ELSE mcp_embed_result(result)
    IN IF r.exc = "none" THEN mcp_returned(r.v)
       ELSE mcp_failed(Err("parse", "", r.exc))

\* _enqueue_job, lines 100-114, and the first line of _wait_job_result
EnqueueJob(reply) ==
    /\ pc = "enqueue"
    /\ LET r == _enqueue_job(reply)
       IN IF r.ok
          THEN /\ job' = r.job_id
               /\ pc' = "wait"
               /\ UNCHANGED <<failure, outcome>>
          ELSE /\ job' = job
               /\ mcp_failed(r.err)
    /\ elapsed' = 0
    /\ UNCHANGED <<op, cfg, text, candidates, polls, lastReply, waitResult,
                   directCalls, directReply, directOutcome>>
    /\ UNCHANGED <<loopVars, notifierVars, gatewayVars, unitVars>>

\* line 128: the budget is spent
JobTimeout ==
    /\ pc = "wait"
    /\ elapsed > job_timeout(cfg.llm_backend_timeout_sec)
    /\ mcp_failed(Err("timeout", "", "job timeout"))
    /\ elapsed' = 0
    /\ UNCHANGED <<op, cfg, text, candidates, polls, lastReply, job,
                   waitResult, directCalls, directReply, directOutcome>>
    /\ UNCHANGED <<loopVars, notifierVars, gatewayVars, unitVars>>

\* lines 131-151: one status request, its reading, and the sleep when the job
\* is not over; the request takes latency ticks.  elapsed is read only at the
\* head of the loop: it is advanced when the loop goes on and is gone (0) once
\* _wait_job_result is left
PollJob(reply, latency) ==
    /\ pc = "wait"
    /\ ~(elapsed > job_timeout(cfg.llm_backend_timeout_sec))
    /\ polls' = polls + 1
    /\ lastReply' = reply
    /\ LET r == poll_once(reply)
       IN CASE r.kind = "continue" ->
                 /\ elapsed' = elapsed + latency + SleepTicks
                 /\ UNCHANGED <<pc, failure, waitResult, outcome>>
            [] r.kind = "return" ->
                 /\ elapsed' = 0
                 /\ waitResult' = r.result
                 /\ mcp_finish(r.result)
            [] OTHER ->
                 /\ elapsed' = 0
                 /\ waitResult' = waitResult
                 /\ mcp_failed(r.err)
    /\ UNCHANGED <<op, cfg, text, candidates, job, directCalls, directReply,
                   directOutcome>>
    /\ UNCHANGED <<loopVars, notifierVars, gatewayVars, unitVars>>

\* lines 256-267 (316-321): the direct backend, once
DirectCall(reply) ==
    /\ pc = "direct"
    /\ directCalls' = directCalls + 1
    /\ directReply' = reply
    /\ LET d == IF op = "tags" THEN ollama_generate_tags(reply, text, candidates)
                ELSE ollama_embed_text(reply)
       IN /\ directOutcome' = d
          /\ outcome' = [kind |-> d.kind, backend |-> "ollama", v |-> d.v, err |-> d.err]
    /\ pc' = "done"
    /\ UNCHANGED <<op, cfg, text, candidates, elapsed, polls, lastReply, job,
                   failure, waitResult>>
    /\ UNCHANGED <<loopVars, notifierVars, gatewayVars, unitVars>>

BackendNext ==
    \/ Call
    \/ \E reply \in EnqueueReplies : EnqueueJob(reply)
    \/ JobTimeout
    \/ \E reply \in PollReplies(IF op = "tags" THEN TagResults ELSE EmbedResults),
          latency \in 0..MaxLatency : PollJob(reply, latency)
    \/ \E reply \in (IF op = "tags" THEN DirectTagReplies ELSE DirectEmbedReplies) :
          DirectCall(reply)

vars == <<backendVars, loopVars, notifierVars, gatewayVars, unitVars>>

SpecBackend == BackendInit /\ [][BackendNext]_vars

(***************************************************************************)
(* Properties of the backend client.                                       *)
(***************************************************************************)
FallbackEnabled == cfg.llm_backend_fallback_ollama

\* what the direct backend makes of the reply it got
DirectResult ==
    IF op = "tags" THEN ollama_generate_tags(directReply, text, candidates)
    ELSE ollama_embed_text(directReply)

\* the outcome of the call is the outcome of the one direct call
OutcomeIsDirect ==
    /\ directCalls = 1
    /\ directOutcome = DirectResult
    /\ outcome.backend = "ollama"
    /\ outcome.kind = directOutcome.kind
    /\ outcome.v = directOutcome.v
    /\ outcome.err = directOutcome.err

\* C1: once the queued-job path has failed (enqueue error, failed or
\* cancelled job, timeout, malformed body, unreadable result): with fallback
\* disabled the call raises that failure and the direct backend is not
\* called; with fallback enabled the direct backend is called exactly once
\* (not yet while the call is under way) and the call ends as that call ends.
C1_QueuedFailureOutcome ==
    failure # NoErr =>
        IF FallbackEnabled
        THEN \/ pc = "direct" /\ directCalls = 0 /\ outcome = NoOutcome
             \/ pc = "done" /\ OutcomeIsDirect
        ELSE /\ pc = "done"
             /\ directCalls = 0
             /\ outcome.kind = "raise"
             /\ outcome.backend = "llm_mcp"
             /\ outcome.err = failure

\* a failed job, fallback enabled, and the direct backend's result returned
C1_Witness ==
    /\ pc = "done"
    /\ failure.kind = "job_failed"
    /\ FallbackEnabled
    /\ directCalls = 1
    /\ outcome.kind = "return"
    /\ outcome.backend = "ollama"

\* max(3, timeout_sec) in ticks, written out
EffectiveTimeout ==
    (IF cfg.llm_backend_timeout_sec < TimeoutFloorSec THEN TimeoutFloorSec
     ELSE cfg.llm_backend_timeout_sec) * TicksPerSec

C2_BoundedPolls ==
    /\ polls <= EffectiveTimeout + 1
    /\ pc = "wait" => polls * SleepTicks <= elapsed /\ directCalls = 0
    /\ failure.kind = "timeout" =>
          /\ polls * (MaxLatency + SleepTicks) > EffectiveTimeout
          /\ IF FallbackEnabled
             THEN \/ pc = "direct" /\ directCalls = 0
                  \/ pc = "done" /\ OutcomeIsDirect
             ELSE pc = "done" /\ directCalls = 0 /\ outcome.err.kind = "timeout"

\* C2: while the polls are answered without a terminal status, the number of
\* polls stays bounded by the effective timeout max(3, timeout_sec) (every
\* poll is followed by a sleep); once the elapsed time is beyond the
\* effective timeout the only step is the timeout failure, which comes no
\* earlier; the direct backend is not called before it and, with fallback
\* enabled, exactly once after it.
C2_TimeoutThenOneDirectCall ==
    /\ []C2_BoundedPolls
    /\ [][(pc = "wait" /\ elapsed > EffectiveTimeout)
            => (failure'.kind = "timeout" /\ polls' = polls)]_vars
    /\ [][(failure.kind # "timeout" /\ failure'.kind = "timeout")
            => (pc = "wait" /\ elapsed > EffectiveTimeout)]_vars

\* a timeout under the floor (timeout_sec below 3), then the direct call
C2_Witness ==
    /\ pc = "done"
    /\ failure.kind = "timeout"
    /\ cfg.llm_backend_timeout_sec < TimeoutFloorSec
    /\ polls * SleepTicks > TimeoutFloorSec * TicksPerSec
    /\ directCalls = 1

\* the last status request was answered "done" with a structured result
QueuedDone == polls > 0 /\ poll_once(lastReply).kind = "return"

\* C3: when the job was enqueued and the polls answered queued/running and
\* then, before the timeout, done with a structured result, generate_tags
\* returns through the queued-job path the tags parsed from that result; no
\* failure is caught and the direct backend is not called.
C3_DoneResultReturned ==
    (op = "tags" /\ QueuedDone) =>
        /\ pc = "done"
        /\ failure = NoErr
        /\ directCalls = 0
        /\ outcome.kind = "return"
        /\ outcome.backend = "llm_mcp"
        /\ outcome.v.tags =
              mcp_tags(mcp_extract_json(_extract_text_from_result(waitResult)),
                       candidates, cfg.max_count)

\* the last status reply could be read: status 200 and a JSON object
Readable(reply) == ~reply.exc /\ reply.http = 200 /\ reply.body = "object"

C4_Lifecycle ==
    polls > 0 =>
        LET status == Lower(lastReply.status)
        IN /\ (Readable(lastReply) /\ status \in {"queued", "running"}) =>
                 \/ pc = "wait" /\ failure = NoErr /\ waitResult = NoResult
                 \/ failure.kind = "timeout"
           /\ (Readable(lastReply) /\ status = "done" /\ lastReply.resultIsDict) =>
                 pc # "wait" /\ waitResult = lastReply.result
           /\ (Readable(lastReply) /\ status \in {"failed", "error", "cancelled"}) =>
                 /\ pc # "wait"
                 /\ failure.kind = "job_failed"
                 /\ failure.status = status
                 /\ lastReply.error # "" => failure.text = lastReply.error

\* C4: a poll answered queued or running does not end the polling (the loop
\* goes on; only the timeout of C2 ends it); done with a structured result
\* makes _wait_job_result return exactly that result; failed, error or
\* cancelled raises a failure with that status and the remote error text; and
\* once the polling is left no further status request is issued.
C4_JobLifecycle ==
    /\ []C4_Lifecycle
    /\ [][pc # "wait" => polls' = polls]_vars

\* polls answered without a terminal status, then cancelled with its text
C4_Witness ==
    /\ pc = "done"
    /\ polls > 1
    /\ Lower(lastReply.status) = "cancelled"
    /\ failure.kind = "job_failed"
    /\ failure.text = "out of memory"

\* an enqueue response the claim calls a failure
BadEnqueue(reply) ==
    /\ ~reply.exc
    /\ \/ reply.http \notin {200, 202}
       \/ reply.body # "object"
       \/ reply.job_id.t # "str"
       \/ reply.job_id.v = ""

\* C5: an enqueue response whose status is neither 200 nor 202, or whose body
\* holds no non-empty string job_id, makes the queued-job path fail at the
\* enqueue, and after a failed enqueue no status request is ever issued.
C5_BadEnqueueNeverPolls ==
    /\ [](failure.kind = "enqueue" => polls = 0 /\ job = "" /\ pc # "wait")
    /\ [][\A reply \in EnqueueReplies :
            (BadEnqueue(reply) /\ EnqueueJob(reply))
                => (failure'.kind = "enqueue" /\ pc' # "wait")]_vars

\* the enqueue answered 202 without a usable job_id and the call is over
C5_Witness ==
    /\ pc = "done"
    /\ failure.kind = "enqueue"
    /\ failure.text = "enqueue missing job_id"
    /\ polls = 0

\* generate_tags has ended after a failure of the queued-job path, with
\* fallback enabled and candidates given
FallbackCase ==
    /\ op = "tags"
    /\ pc = "done"
    /\ failure # NoErr
    /\ FallbackEnabled
    /\ candidates # <<>>

UnusableModelText ==
    IF directCalls = 1
    THEN /\ directReply.kind = "ok"
         /\ \/ ~ollama_extract_json(directReply.text).ok
            \/ mcp_parsed_tags(ollama_extract_json(directReply.text).fields) = <<>>
    ELSE /\ QueuedDone
         /\ mcp_parsed_tags(mcp_extract_json(_extract_text_from_result(waitResult))) = <<>>

\* C7: whichever backend produced the model text, when it is no JSON object
\* or holds no usable tag, generate_tags returns the candidates as tags with
\* the scorer's code vector and the scorer's non-empty emoji.
C7_UnusableTextScored ==
    (op = "tags" /\ pc = "done" /\ UnusableModelText) =>
        /\ outcome.kind = "return"
        /\ outcome.v.tags = candidates
        /\ outcome.v.code = _fallback_code(candidates, text)
        /\ outcome.v.emoji # <<>>
        /\ outcome.v.emoji = _fallback_emoji(candidates, outcome.v.code, text)

(***************************************************************************)
(* The orchestration loops of worker/main.py over the repository           *)
(* (worker/db.py).  Every await of a loop is one step; a repository call   *)
(* either takes effect or raises.                                          *)
(***************************************************************************)
MaxItems == 2           \* rows of the messages table
MaxAttempts == 1        \* attempts per item and stage the model follows
EmbedBatchSize == 2     \* cfg.embed_batch_size

TagBatchLimit == 50     \* fetch_pending_tags(limit=50)
AttemptCeiling == 4     \* the attempt counters are followed up to this value
SmallBatchLimit == 1    \* a limit of fetch_pending_tags below the rows of the table

Ids == 1..MaxItems

\* a row as the ingest leaves it; service is is_service_post(content) and
\* backend_ok tells whether generate_tags returns for the content
Row(service) ==
    [service |-> service, backend_ok |-> TRUE,
     tags_processed |-> FALSE, tag_attempts |-> 0, last_tag_error |-> "",
     embedding_processed |-> FALSE, embedding_attempts |-> 0,
     last_embedding_error |-> "",
     tags |-> FALSE, enrichment |-> "none", embedding |-> FALSE]

\* ORDER BY ts DESC: the later row has the larger id
RECURSIVE Descending(_)
Descending(S) ==
    IF S = {} THEN <<>>
    ELSE LET top == CHOOSE x \in S : \A y \in S : y <= x
         IN <<top>> \o Descending(S \ {top})

\* a fetch that gives up an item after two attempts
fetch_pending_tags_cutoff(rows, limit) ==
    Take(Descending({i \in Ids : ~rows[i].tags_processed /\ rows[i].tag_attempts < 2}),
         limit)

\* a fetch that does not ask whether the row is processed
fetch_pending_tags_all(rows, limit) == Take(Descending(Ids), limit)

fetch_pending_tags(rows, limit) ==
    Take(Descending({i \in Ids : ~rows[i].tags_processed}), limit)

\* a fetch that does not ask for tags_processed
fetch_pending_embeddings_untagged(rows, limit) ==
    Take(Descending({i \in Ids : ~rows[i].embedding_processed}), limit)

fetch_pending_embeddings(rows, limit) ==
    Take(Descending({i \in Ids : rows[i].tags_processed
                                   /\ ~rows[i].embedding_processed}), limit)

save_tags(rows, id) == [rows EXCEPT ![id].tags = TRUE]

update_enrichment(rows, id, marker) == [rows EXCEPT ![id].enrichment = marker]

mark_tags_processed(rows, id) ==
    [rows EXCEPT ![id].tags_processed = TRUE,
                 ![id].tag_attempts = Min2(@ + 1, AttemptCeiling),
                 ![id].last_tag_error = ""]

mark_tag_error(rows, id, error) ==
    [rows EXCEPT ![id].tag_attempts = Min2(@ + 1, AttemptCeiling),
                 ![id].last_tag_error = error]

save_embedding(rows, id) == [rows EXCEPT ![id].embedding = TRUE]

mark_embedding_processed(rows, id) ==
    [rows EXCEPT ![id].embedding_processed = TRUE,
                 ![id].embedding_attempts = Min2(@ + 1, AttemptCeiling),
                 ![id].last_embedding_error = ""]

mark_embedding_error(rows, id, error) ==
    [rows EXCEPT ![id].embedding_attempts = Min2(@ + 1, AttemptCeiling),
                 ![id].last_embedding_error = error]

Task(pc_, items) == [pc |-> pc_, items |-> items, exc |-> ""]

\* the backend client is not followed call by call under the loops
BackendIdle ==
    /\ op = "tags"
    /\ cfg = [llm_backend |-> "llm_mcp", llm_backend_fallback_ollama |-> TRUE,
              llm_backend_timeout_sec |-> MaxTimeoutSec, max_count |-> MaxCount]
    /\ text = TxtEmpty
    /\ candidates = <<>>
    /\ pc = "idle"
    /\ elapsed = 0
    /\ polls = 0
    /\ lastReply = NoReply
    /\ job = ""
    /\ failure = NoErr
    /\ waitResult = NoResult
    /\ directCalls = 0
    /\ directReply = NoDirectReply
    /\ directOutcome = NoDirect
    /\ outcome = NoOutcome

\* the contents of a message, as is_service_post reads them
Contents == {"", "plain", "service", "service_long"}

\* tagging.is_service_post: a service pattern in a text of at most 32 characters
is_service_post(content) == content = "service"

LoopsInit ==
    /\ messages \in [Ids -> {Row(is_service_post(content)) : content \in Contents}]
    /\ tagging_loop = Task("fetch", <<>>)
    /\ embedding_loop = Task("fetch", <<>>)
    /\ status_loop = "fetch_stats"
    /\ ingest_loop \in {"upsert_channel", "ended"}
    /\ tag_rate = 0
    /\ embed_rate = 0
    /\ mainPc = "running"
    /\ BackendIdle
    /\ NotifierOff
    /\ GatewayOff
    /\ UnitsOff

\* stop_event is not set: the tasks run
Running == mainPc = "running"

(***************************************************************************)
(* tagging_loop, main.py lines 264-360                                     *)
(***************************************************************************)
\* a loop that sends every item to the backend
tagging_start_item_no_skip(items) ==
    IF items = <<>> THEN Task("sleep", <<>>) ELSE Task("generate_tags", items)

\* the for loop reaches the head of items (or ends): lines 276-280
tagging_start_item(items) ==
    IF items = <<>> THEN Task("sleep", <<>>)
    ELSE Task(IF messages[Head(items)].service THEN "update_enrichment"
              ELSE "generate_tags", items)

\* a loop that handles the exception by fetching again at once
loop_caught_refetch(task) == [task EXCEPT !.pc = "fetch"]

\* except Exception at the loop level (lines 357 and 428): logged, then the
\* sleep that ends the cycle (lines 360 and 431)
loop_caught(task) == [task EXCEPT !.pc = "sleep"]

\* except Exception as exc, line 351
tagging_caught(error) ==
    [tagging_loop EXCEPT !.pc = "mark_tag_error", !.exc = error]

\* lines 270-274; a raise is caught at line 357
tagging_fetch_limit(ok, cap, limit) ==
    /\ Running
    /\ tagging_loop.pc = "fetch"
    /\ \A i \in Ids : ~messages[i].tags_processed
                        => messages[i].tag_attempts < cap
    /\ tagging_loop' = IF ok
                       THEN tagging_start_item(fetch_pending_tags(messages, limit))
                       ELSE loop_caught(tagging_loop)
    /\ UNCHANGED <<messages, embedding_loop, status_loop, tag_rate, embed_rate, mainPc>>
    /\ UNCHANGED <<ingest_loop, backendVars, notifierVars, gatewayVars, unitVars>>

\* db.fetch_pending_tags(limit=50)
tagging_fetch_upto(ok, cap) == tagging_fetch_limit(ok, cap, TagBatchLimit)

\* the fetch, followed as long as no pending item has MaxAttempts attempts
tagging_fetch(ok) == tagging_fetch_upto(ok, MaxAttempts)

\* a loop that marks an item without tags at once, its emoji and code unwritten
tagging_generate_tags_mark_first(result) ==
    /\ Running
    /\ tagging_loop.pc = "generate_tags"
    /\ tagging_loop' =
          CASE result = "raise" -> tagging_caught("backend error")
            [] result = "tags" -> [tagging_loop EXCEPT !.pc = "save_tags"]
            [] OTHER -> [tagging_loop EXCEPT !.pc = "mark_tags_processed"]
    /\ UNCHANGED <<messages, embedding_loop, status_loop, tag_rate, embed_rate, mainPc>>
    /\ UNCHANGED <<ingest_loop, backendVars, notifierVars, gatewayVars, unitVars>>

\* lines 310-326: the backend call and normalize_tags
tagging_generate_tags(result) ==
    /\ Running
    /\ tagging_loop.pc = "generate_tags"
    /\ tagging_loop' =
          CASE result = "raise" -> tagging_caught("backend error")
            [] result = "tags" -> [tagging_loop EXCEPT !.pc = "save_tags"]
            [] OTHER -> [tagging_loop EXCEPT !.pc = "update_enrichment"]
    /\ UNCHANGED <<messages, embedding_loop, status_loop, tag_rate, embed_rate, mainPc>>
    /\ UNCHANGED <<ingest_loop, backendVars, notifierVars, gatewayVars, unitVars>>

\* line 328
tagging_save_tags(ok) ==
    /\ Running
    /\ tagging_loop.pc = "save_tags"
    /\ IF ok
       THEN /\ messages' = save_tags(messages, Head(tagging_loop.items))
            /\ tagging_loop' = [tagging_loop EXCEPT !.pc = "update_enrichment"]
       ELSE /\ messages' = messages
            /\ tagging_loop' = tagging_caught("db error")
    /\ UNCHANGED <<embedding_loop, status_loop, tag_rate, embed_rate, mainPc>>
    /\ UNCHANGED <<ingest_loop, backendVars, notifierVars, gatewayVars, unitVars>>

\* lines 282 and 330
tagging_update_enrichment(ok) ==
    /\ Running
    /\ tagging_loop.pc = "update_enrichment"
    /\ LET id == Head(tagging_loop.items)
       IN IF ok
          THEN /\ messages' = update_enrichment(messages, id,
                                  IF messages[id].service THEN "service" ELSE "model")
               /\ tagging_loop' = [tagging_loop EXCEPT !.pc = "mark_tags_processed"]
          ELSE /\ messages' = messages
               /\ tagging_loop' = tagging_caught("db error")
    /\ UNCHANGED <<embedding_loop, status_loop, tag_rate, embed_rate, mainPc>>
    /\ UNCHANGED <<ingest_loop, backendVars, notifierVars, gatewayVars, unitVars>>

\* lines 283 and 331-332: the mark, then tag_rate.add for a tagged item
tagging_mark_tags_processed(ok) ==
    /\ Running
    /\ tagging_loop.pc = "mark_tags_processed"
    /\ LET id == Head(tagging_loop.items)
       IN IF ok
          THEN /\ messages' = mark_tags_processed(messages, id)
               /\ tag_rate' = IF messages[id].service THEN tag_rate ELSE tag_rate + 1
               /\ tagging_loop' = tagging_start_item(Tail(tagging_loop.items))
          ELSE /\ messages' = messages
               /\ tag_rate' = tag_rate
               /\ tagging_loop' = tagging_caught("db error")
    /\ UNCHANGED <<embedding_loop, status_loop, embed_rate, mainPc>>
    /\ UNCHANGED <<ingest_loop, backendVars, notifierVars, gatewayVars, unitVars>>

\* line 352, inside the handler: a raise leaves the for loop and is caught at
\* line 357, the items not yet done left behind
tagging_mark_tag_error(ok) ==
    /\ Running
    /\ tagging_loop.pc = "mark_tag_error"
    /\ IF ok
       THEN /\ messages' = mark_tag_error(messages, Head(tagging_loop.items),
                                          tagging_loop.exc)
            /\ tagging_loop' = tagging_start_item(Tail(tagging_loop.items))
       ELSE /\ messages' = messages
            /\ tagging_loop' = loop_caught(tagging_loop)
    /\ UNCHANGED <<embedding_loop, status_loop, tag_rate, embed_rate, mainPc>>
    /\ UNCHANGED <<ingest_loop, backendVars, notifierVars, gatewayVars, unitVars>>

\* lines 273 and 360
tagging_sleep ==
    /\ Running
    /\ tagging_loop.pc = "sleep"
    /\ tagging_loop' = Task("fetch", <<>>)
    /\ UNCHANGED <<messages, embedding_loop, status_loop, tag_rate, embed_rate, mainPc>>
    /\ UNCHANGED <<ingest_loop, backendVars, notifierVars, gatewayVars, unitVars>>

(***************************************************************************)
(* embedding_loop, main.py lines 363-431                                   *)
(***************************************************************************)
embedding_start_item(items) ==
    IF items = <<>> THEN Task("sleep", <<>>) ELSE Task("embed_text", items)

\* except Exception as exc, line 422
embedding_caught(error) ==
    [embedding_loop EXCEPT !.pc = "mark_embedding_error", !.exc = error]

\* lines 369-373; a raise is caught at line 428
embedding_fetch_upto(ok, cap) ==
    /\ Running
    /\ embedding_loop.pc = "fetch"
    /\ \A i \in Ids : ~messages[i].embedding_processed
                        => messages[i].embedding_attempts < cap
    /\ embedding_loop' =
          IF ok
          THEN embedding_start_item(fetch_pending_embeddings(messages, EmbedBatchSize))
          ELSE loop_caught(embedding_loop)
    /\ UNCHANGED <<messages, tagging_loop, status_loop, tag_rate, embed_rate, mainPc>>
    /\ UNCHANGED <<ingest_loop, backendVars, notifierVars, gatewayVars, unitVars>>

\* the fetch, followed as long as no pending item has MaxAttempts attempts
embedding_fetch(ok) == embedding_fetch_upto(ok, MaxAttempts)

\* lines 394-406: the backend call and "if embedding:"
embedding_embed_text(result) ==
    /\ Running
    /\ embedding_loop.pc = "embed_text"
    /\ embedding_loop' =
          CASE result = "raise" -> embedding_caught("backend error")
            [] result = "vector" -> [embedding_loop EXCEPT !.pc = "save_embedding"]
            [] OTHER -> [embedding_loop EXCEPT !.pc = "mark_empty"]
    /\ UNCHANGED <<messages, tagging_loop, status_loop, tag_rate, embed_rate, mainPc>>
    /\ UNCHANGED <<ingest_loop, backendVars, notifierVars, gatewayVars, unitVars>>

\* line 407
embedding_save_embedding(ok) ==
    /\ Running
    /\ embedding_loop.pc = "save_embedding"
    /\ IF ok
       THEN /\ messages' = save_embedding(messages, Head(embedding_loop.items))
            /\ embedding_loop' = [embedding_loop EXCEPT !.pc = "mark_embedding_processed"]
       ELSE /\ messages' = messages
            /\ embedding_loop' = embedding_caught("db error")
    /\ UNCHANGED <<tagging_loop, status_loop, tag_rate, embed_rate, mainPc>>
    /\ UNCHANGED <<ingest_loop, backendVars, notifierVars, gatewayVars, unitVars>>

\* lines 408-409: the mark, then embed_rate.add
embedding_mark_embedding_processed(ok) ==
    /\ Running
    /\ embedding_loop.pc = "mark_embedding_processed"
    /\ IF ok
       THEN /\ messages' = mark_embedding_processed(messages, Head(embedding_loop.items))
            /\ embed_rate' = embed_rate + 1
            /\ embedding_loop' = embedding_start_item(Tail(embedding_loop.items))
       ELSE /\ messages' = messages
            /\ embed_rate' = embed_rate
            /\ embedding_loop' = embedding_caught("db error")
    /\ UNCHANGED <<tagging_loop, status_loop, tag_rate, mainPc>>
    /\ UNCHANGED <<ingest_loop, backendVars, notifierVars, gatewayVars, unitVars>>

\* line 419, inside the try: mark_embedding_error(id, "empty embedding")
embedding_mark_empty(ok) ==
    /\ Running
    /\ embedding_loop.pc = "mark_empty"
    /\ IF ok
       THEN /\ messages' = mark_embedding_error(messages, Head(embedding_loop.items),
                                                "empty embedding")
            /\ embedding_loop' = embedding_start_item(Tail(embedding_loop.items))
       ELSE /\ messages' = messages
            /\ embedding_loop' = embedding_caught("db error")
    /\ UNCHANGED <<tagging_loop, status_loop, tag_rate, embed_rate, mainPc>>
    /\ UNCHANGED <<ingest_loop, backendVars, notifierVars, gatewayVars, unitVars>>

\* line 423, inside the handler: a raise leaves the for loop and is caught at
\* line 428, the items not yet done left behind
embedding_mark_embedding_error(ok) ==
    /\ Running
    /\ embedding_loop.pc = "mark_embedding_error"
    /\ IF ok
       THEN /\ messages' = mark_embedding_error(messages, Head(embedding_loop.items),
                                                embedding_loop.exc)
            /\ embedding_loop' = embedding_start_item(Tail(embedding_loop.items))
       ELSE /\ messages' = messages
            /\ embedding_loop' = loop_caught(embedding_loop)
    /\ UNCHANGED <<tagging_loop, status_loop, tag_rate, embed_rate, mainPc>>
    /\ UNCHANGED <<ingest_loop, backendVars, notifierVars, gatewayVars, unitVars>>

\* lines 372 and 431
embedding_sleep ==
    /\ Running
    /\ embedding_loop.pc = "sleep"
    /\ embedding_loop' = Task("fetch", <<>>)
    /\ UNCHANGED <<messages, tagging_loop, status_loop, tag_rate, embed_rate, mainPc>>
    /\ UNCHANGED <<ingest_loop, backendVars, notifierVars, gatewayVars, unitVars>>

(***************************************************************************)
(* status_loop, main.py lines 507-574: no exception handler around it      *)
(***************************************************************************)
\* line 522: a raise of fetch_stats leaves the coroutine, the task is over
status_fetch_stats(ok) ==
    /\ Running
    /\ status_loop = "fetch_stats"
    /\ status_loop' = IF ok THEN "update" ELSE "ended"
    /\ UNCHANGED <<messages, tagging_loop, embedding_loop, tag_rate, embed_rate, mainPc>>
    /\ UNCHANGED <<ingest_loop, backendVars, notifierVars, gatewayVars, unitVars>>

\* lines 537-551: notifier.update; the gateway returns a handle or a flag and
\* raises nothing (telegram_gateway.py lines 90-169)
status_update(delivered) ==
    /\ Running
    /\ status_loop = "update"
    /\ delivered \in BOOLEAN
    /\ status_loop' = "sleep"
    /\ UNCHANGED <<messages, tagging_loop, embedding_loop, tag_rate, embed_rate, mainPc>>
    /\ UNCHANGED <<ingest_loop, backendVars, notifierVars, gatewayVars, unitVars>>

\* line 574
status_sleep ==
    /\ Running
    /\ status_loop = "sleep"
    /\ status_loop' = "fetch_stats"
    /\ UNCHANGED <<messages, tagging_loop, embedding_loop, tag_rate, embed_rate, mainPc>>
    /\ UNCHANGED <<ingest_loop, backendVars, notifierVars, gatewayVars, unitVars>>

(***************************************************************************)
(* main(), lines 690-708: the stop signal, the cancellation, the closing   *)
(***************************************************************************)
\* lines 692-694: stop_event is set, every task is cancelled
main_stop ==
    /\ mainPc = "running"
    /\ mainPc' = "cancelling"
    /\ UNCHANGED <<messages, tagging_loop, embedding_loop, status_loop, tag_rate,
                   embed_rate>>
    /\ UNCHANGED <<ingest_loop, backendVars, notifierVars, gatewayVars, unitVars>>

\* CancelledError at the await the task is suspended at: except Exception
\* does not catch it
tagging_cancelled ==
    /\ mainPc = "cancelling"
    /\ tagging_loop.pc # "cancelled"
    /\ tagging_loop' = Task("cancelled", <<>>)
    /\ UNCHANGED <<messages, embedding_loop, status_loop, tag_rate, embed_rate, mainPc>>
    /\ UNCHANGED <<ingest_loop, backendVars, notifierVars, gatewayVars, unitVars>>

embedding_cancelled ==
    /\ mainPc = "cancelling"
    /\ embedding_loop.pc # "cancelled"
    /\ embedding_loop' = Task("cancelled", <<>>)
    /\ UNCHANGED <<messages, tagging_loop, status_loop, tag_rate, embed_rate, mainPc>>
    /\ UNCHANGED <<ingest_loop, backendVars, notifierVars, gatewayVars, unitVars>>

status_cancelled ==
    /\ mainPc = "cancelling"
    /\ status_loop \notin {"ended", "cancelled"}
    /\ status_loop' = "cancelled"
    /\ UNCHANGED <<messages, tagging_loop, embedding_loop, tag_rate, embed_rate, mainPc>>
    /\ UNCHANGED <<ingest_loop, backendVars, notifierVars, gatewayVars, unitVars>>

(***************************************************************************)
(* ingest_loop, main.py lines 146-203, over one channel whose page keeps   *)
(* the posts it showed: upsert_message rewrites the scraped columns of a   *)
(* row and none of its processing columns (db.py lines 74-107).            *)
(***************************************************************************)
\* line 167; a raise is caught at line 201 and ends the pass over the channels
ingest_upsert_channel(ok) ==
    /\ Running
    /\ ingest_loop = "upsert_channel"
    /\ ingest_loop' = IF ok THEN "fetch_channel_page" ELSE "sleep"
    /\ UNCHANGED <<messages, tagging_loop, embedding_loop, status_loop, tag_rate,
                   embed_rate, mainPc>>
    /\ UNCHANGED <<backendVars, notifierVars, gatewayVars, unitVars>>

\* lines 168-176: the page, or a page without posts (touch_channel, continue)
ingest_fetch_channel_page(page) ==
    /\ Running
    /\ ingest_loop = "fetch_channel_page"
    /\ ingest_loop' = IF page = "posts" THEN "upsert_message" ELSE "sleep"
    /\ UNCHANGED <<messages, tagging_loop, embedding_loop, status_loop, tag_rate,
                   embed_rate, mainPc>>
    /\ UNCHANGED <<backendVars, notifierVars, gatewayVars, unitVars>>

\* lines 181-187: upsert_message for each post, then touch_channel
ingest_upsert_message(ok) ==
    /\ Running
    /\ ingest_loop = "upsert_message"
    /\ ingest_loop' = "sleep"
    /\ UNCHANGED <<messages, tagging_loop, embedding_loop, status_loop, tag_rate,
                   embed_rate, mainPc>>
    /\ UNCHANGED <<backendVars, notifierVars, gatewayVars, unitVars>>

\* line 203
ingest_sleep ==
    /\ Running
    /\ ingest_loop = "sleep"
    /\ ingest_loop' = "upsert_channel"
    /\ UNCHANGED <<messages, tagging_loop, embedding_loop, status_loop, tag_rate,
                   embed_rate, mainPc>>
    /\ UNCHANGED <<backendVars, notifierVars, gatewayVars, unitVars>>

ingest_cancelled ==
    /\ mainPc = "cancelling"
    /\ ingest_loop \notin {"ended", "cancelled"}
    /\ ingest_loop' = "cancelled"
    /\ UNCHANGED <<messages, tagging_loop, embedding_loop, status_loop, tag_rate,
                   embed_rate, mainPc>>
    /\ UNCHANGED <<backendVars, notifierVars, gatewayVars, unitVars>>

\* every task has come to its end, by CancelledError or on its own
TasksOver ==
    /\ ingest_loop \in {"ended", "cancelled"}
    /\ tagging_loop.pc = "cancelled"
    /\ embedding_loop.pc = "cancelled"
    /\ status_loop \in {"ended", "cancelled"}

\* a gather that returns while tasks still run
main_gather_no_wait ==
    /\ mainPc = "cancelling"
    /\ mainPc' = "gathered"
    /\ UNCHANGED <<messages, tagging_loop, embedding_loop, status_loop, tag_rate,
                   embed_rate>>
    /\ UNCHANGED <<ingest_loop, backendVars, notifierVars, gatewayVars, unitVars>>

\* line 695: gather returns once every task is over
main_gather ==
    /\ mainPc = "cancelling"
    /\ TasksOver
    /\ mainPc' = "gathered"
    /\ UNCHANGED <<messages, tagging_loop, embedding_loop, status_loop, tag_rate,
                   embed_rate>>
    /\ UNCHANGED <<ingest_loop, backendVars, notifierVars, gatewayVars, unitVars>>

\* lines 696-708: notifier.done, gateway.close, db.close
main_close ==
    /\ mainPc \in {"gathered", "notified", "gateway_closed"}
    /\ mainPc' = CASE mainPc = "gathered" -> "notified"
                   [] mainPc = "notified" -> "gateway_closed"
                   [] OTHER -> "closed"
    /\ UNCHANGED <<messages, tagging_loop, embedding_loop, status_loop, tag_rate,
                   embed_rate>>
    /\ UNCHANGED <<ingest_loop, backendVars, notifierVars, gatewayVars, unitVars>>

LoopsNext ==
    \/ \E ok \in BOOLEAN : tagging_fetch(ok)
    \/ \E result \in {"tags", "no_tags", "raise"} : tagging_generate_tags(result)
    \/ \E ok \in BOOLEAN : tagging_save_tags(ok)
    \/ \E ok \in BOOLEAN : tagging_update_enrichment(ok)
    \/ \E ok \in BOOLEAN : tagging_mark_tags_processed(ok)
    \/ \E ok \in BOOLEAN : tagging_mark_tag_error(ok)
    \/ tagging_sleep
    \/ \E ok \in BOOLEAN : embedding_fetch(ok)
    \/ \E result \in {"vector", "empty", "raise"} : embedding_embed_text(result)
    \/ \E ok \in BOOLEAN : embedding_save_embedding(ok)
    \/ \E ok \in BOOLEAN : embedding_mark_embedding_processed(ok)
    \/ \E ok \in BOOLEAN : embedding_mark_empty(ok)
    \/ \E ok \in BOOLEAN : embedding_mark_embedding_error(ok)
    \/ embedding_sleep
    \/ \E ok \in BOOLEAN : status_fetch_stats(ok)
    \/ \E delivered \in BOOLEAN : status_update(delivered)
    \/ status_sleep
    \/ \E ok \in BOOLEAN : ingest_upsert_channel(ok)
    \/ \E page \in {"posts", "no_posts", "raise"} : ingest_fetch_channel_page(page)
    \/ \E ok \in BOOLEAN : ingest_upsert_message(ok)
    \/ ingest_sleep
    \/ main_stop
    \/ ingest_cancelled
    \/ tagging_cancelled
    \/ embedding_cancelled
    \/ status_cancelled
    \/ main_gather
    \/ main_close

SpecLoops == LoopsInit /\ [][LoopsNext]_vars

\* a step of the tagging task, of the embedding task
TaggingStep ==
    \/ \E ok \in BOOLEAN : tagging_fetch(ok)
    \/ \E result \in {"tags", "no_tags", "raise"} : tagging_generate_tags(result)
    \/ \E ok \in BOOLEAN : tagging_save_tags(ok)
    \/ \E ok \in BOOLEAN : tagging_update_enrichment(ok)
    \/ \E ok \in BOOLEAN : tagging_mark_tags_processed(ok)
    \/ \E ok \in BOOLEAN : tagging_mark_tag_error(ok)
    \/ tagging_sleep

EmbeddingStep ==
    \/ \E ok \in BOOLEAN : embedding_fetch(ok)
    \/ \E result \in {"vector", "empty", "raise"} : embedding_embed_text(result)
    \/ \E ok \in BOOLEAN : embedding_save_embedding(ok)
    \/ \E ok \in BOOLEAN : embedding_mark_embedding_processed(ok)
    \/ \E ok \in BOOLEAN : embedding_mark_empty(ok)
    \/ \E ok \in BOOLEAN : embedding_mark_embedding_error(ok)
    \/ embedding_sleep

\* the event loop resumes a task whose awaited call or sleep has ended, and
\* every awaited call ends (the sessions carry a total timeout)
SpecLoopsFair ==
    LoopsInit /\ [][LoopsNext]_vars /\ WF_vars(TaggingStep) /\ WF_vars(EmbeddingStep)

(***************************************************************************)
(* Properties of the orchestration loops                                   *)
(***************************************************************************)
\* the cycle of the tagging loop is over and an item of its batch was not reached
TaggingLeftBehind == tagging_loop.pc = "sleep" /\ tagging_loop.items # <<>>

\* the handler of the tagging loop is left with the error written to the item
TagErrorRecorded ==
    LET id == Head(tagging_loop.items)
    IN /\ messages'[id].last_tag_error = tagging_loop.exc
       /\ messages'[id].tag_attempts = messages[id].tag_attempts + 1

\* C8: in the tagging loop every exception raised while an item of a fetched
\* batch is processed (by the backend, the normalization or a repository
\* write, the write that records the error included) is caught: the item gets
\* its last error set and its attempt counter incremented by one, and every
\* later item of the batch is still processed in the same cycle.
C8_TaggingItemErrorsContained ==
    /\ [](~TaggingLeftBehind)
    /\ [][(tagging_loop.pc = "mark_tag_error"
           /\ tagging_loop'.pc \notin {"mark_tag_error", "cancelled"})
          => TagErrorRecorded]_vars

\* the cycle of the embedding loop is over and an item of its batch was not reached
EmbeddingLeftBehind == embedding_loop.pc = "sleep" /\ embedding_loop.items # <<>>

\* the embedding loop is done with a failed item: the error is written to it
\* and it stays pending
EmbeddingErrorRecorded ==
    LET id == Head(embedding_loop.items)
    IN /\ messages'[id].last_embedding_error # ""
       /\ messages'[id].embedding_attempts = messages[id].embedding_attempts + 1
       /\ ~messages'[id].embedding_processed

\* C9: in the embedding loop, for each item of a batch, a non-empty vector is
\* persisted and the item marked embedding-processed with one sample fed to
\* the embedding rate tracker; an empty vector or an exception leaves the item
\* not embedding-processed and records an item-level error, and the remaining
\* items of the batch are still processed.
C9_EmbeddingItemOutcomes ==
    /\ [](/\ \A i \in Ids : messages[i].embedding_processed => messages[i].embedding
          /\ embed_rate = Cardinality({i \in Ids : messages[i].embedding_processed})
          /\ ~EmbeddingLeftBehind)
    /\ [][(embedding_loop.pc \in {"mark_empty", "mark_embedding_error"}
           /\ embedding_loop'.pc \notin {"mark_empty", "mark_embedding_error",
                                         "cancelled"})
          => EmbeddingErrorRecorded]_vars

\* C10: none of the three loops (tagging, embedding, status) has a terminal
\* state: whatever the repository, the backend or the notification gateway
\* raise, the task of the loop never ends before cancellation is requested.
C10_LoopsRunUntilCancelled ==
    mainPc = "running"
        => /\ tagging_loop.pc # "ended"
           /\ embedding_loop.pc # "ended"
           /\ status_loop # "ended"

\* the loop-level handler of the tagging loop (of the embedding loop) has caught
\* an exception raised by the handler of an item
TaggingBatchFailed == tagging_loop.pc = "sleep" /\ tagging_loop.exc # ""
EmbeddingBatchFailed == embedding_loop.pc = "sleep" /\ embedding_loop.exc # ""

C12_ServicePostSkipsBackend ==
    /\ tagging_loop.pc \in {"generate_tags", "save_tags"}
          => ~messages[Head(tagging_loop.items)].service
    /\ \A i \in Ids :
          messages[i].service
             => /\ messages[i].enrichment \in {"none", "service"}
                /\ ~messages[i].tags
                /\ messages[i].tags_processed => messages[i].enrichment = "service"

C12_Witness ==
    \E i \in Ids : /\ messages[i].service
                   /\ messages[i].tags_processed
                   /\ messages[i].enrichment = "service"

\* the embedding loop holds an item: it is between the call of the backend and
\* the write that ends the item
EmbeddingAtItem ==
    embedding_loop.pc \in {"embed_text", "save_embedding", "mark_embedding_processed",
                           "mark_empty", "mark_embedding_error"}

\* C13: the embedding loop only ever embeds items that are tag-processed and
\* not yet embedding-processed, so in every reachable state an
\* embedding-processed item is tag-processed.
C13_EmbeddedImpliesTagged ==
    /\ \A i \in Ids : messages[i].embedding_processed => messages[i].tags_processed
    /\ \A i \in Ids : messages[i].embedding => messages[i].tags_processed
    /\ EmbeddingAtItem
          => /\ messages[Head(embedding_loop.items)].tags_processed
             /\ ~messages[Head(embedding_loop.items)].embedding_processed

C13_Witness ==
    /\ \E i \in Ids : messages[i].embedding_processed
    /\ \E i \in Ids : ~messages[i].tags_processed

(***************************************************************************)
(* TelegramProgressNotifier (worker/telegram_notifier.py) with its three   *)
(* callers: the status loop (update), the spinner task (_spin) and main()  *)
(* at shutdown (done).  The gateway answers a send with a handle or None   *)
(* and an edit with True or False; a call is suspended between the request *)
(* and the answer.  A handle is the number of the message it names.        *)
(***************************************************************************)
MinInterval == 3        \* update_interval, in ticks
MaxTime == 5            \* the ticks the model follows

SpinSleep == 1          \* min(0.8, self._min_interval): one tick

NoCall == [pc |-> "idle", now |-> 0]
NoSpin == [pc |-> "none", now |-> 0, wake |-> 0]

NotifierInit ==
    /\ notifier = [disabled |-> FALSE, message_handle |-> 0, running |-> FALSE,
                   last_edit_ts |-> 0, task |-> FALSE]
    /\ clock = 0
    /\ update_call = NoCall
    /\ spin_task = NoSpin
    /\ done_call = "none"
    /\ gateway_log = [sends |-> 0, created |-> 0, last_edit |-> -1,
                      too_close |-> FALSE, send_with_handle |-> FALSE,
                      last_text |-> "none"]
    /\ phase = "running"
    /\ BackendIdle
    /\ LoopsOff
    /\ GatewayOff
    /\ UnitsOff

\* an update that does not ask whether the notifier is disabled
update_route_when_disabled(n, now) ==
    IF n.message_handle = 0 THEN "start"
    ELSE IF now - n.last_edit_ts < MinInterval THEN "throttled"
    ELSE "edit"

\* an update that answers a held handle with a new send
update_route_resend(n, now) ==
    IF n.disabled THEN "return"
    ELSE IF n.message_handle = 0 THEN "start"
    ELSE IF now - n.last_edit_ts < MinInterval THEN "throttled"
    ELSE "start"

\* update(), lines 53-62: what the call does before it awaits anything
update_route(n, now) ==
    IF n.disabled THEN "return"
    ELSE IF n.message_handle = 0 THEN "start"
    ELSE IF now - n.last_edit_ts < MinInterval THEN "throttled"
    ELSE "edit"

\* start(), line 43: gateway.send_text is called
send_issued(log) ==
    [log EXCEPT !.sends = @ + 1,
                !.send_with_handle = @ \/ notifier.message_handle # 0]

\* update() line 63 and _spin() line 97: gateway.edit_text is called
edit_issued(log) ==
    [log EXCEPT !.too_close = @ \/ (log.last_edit >= 0
                                    /\ clock - log.last_edit < MinInterval),
                !.last_edit = clock]

\* the text of the edit: "lines" is base_text as update() joined it (line 66),
\* "spin" is f"{spin} {self.base_text}" (line 100), "final" the text of done()
\* (line 81)
edit_text_issued(log, kind) == [log EXCEPT !.last_text = kind]

\* start(), lines 44-50, once send_text has answered (0 is None)
start_returned(n, handle, now) ==
    IF handle = 0 THEN [n EXCEPT !.disabled = TRUE]
    ELSE [n EXCEPT !.message_handle = handle, !.running = TRUE, !.task = TRUE,
                   !.last_edit_ts = now]

\* lines 68-69 and 102-103: "if updated: self._last_edit_ts = now"
edit_returned(n, updated, now) ==
    IF updated THEN [n EXCEPT !.last_edit_ts = now] ELSE n

\* the spinner at "await asyncio.sleep(...)", line 89
Sleeping == [pc |-> "sleep", now |-> 0, wake |-> clock + SpinSleep]

\* the status loop calls update(lines): main.py line 551
update_called ==
    /\ phase = "running"
    /\ update_call.pc = "idle"
    /\ LET route == update_route(notifier, clock)
       IN CASE route = "start" ->
                 /\ gateway_log' = send_issued(gateway_log)
                 /\ update_call' = [pc |-> "send", now |-> clock]
            [] route = "edit" ->
                 /\ gateway_log' = edit_text_issued(edit_issued(gateway_log), "lines")
                 /\ update_call' = [pc |-> "edit", now |-> clock]
            [] OTHER -> UNCHANGED <<gateway_log, update_call>>
    /\ UNCHANGED <<notifier, clock, spin_task, done_call, phase>>
    /\ UNCHANGED <<backendVars, loopVars, gatewayVars, unitVars>>

\* send_text answers the start() that update() awaits
update_send_returns(sent) ==
    /\ phase = "running"
    /\ update_call.pc = "send"
    /\ LET handle == IF sent THEN gateway_log.created + 1 ELSE 0
       IN /\ notifier' = start_returned(notifier, handle, clock)
          /\ gateway_log' = [gateway_log EXCEPT !.created = IF sent THEN @ + 1 ELSE @]
          /\ spin_task' = IF sent THEN Sleeping ELSE spin_task
    /\ update_call' = NoCall
    /\ UNCHANGED <<clock, done_call, phase>>
    /\ UNCHANGED <<backendVars, loopVars, gatewayVars, unitVars>>

\* edit_text answers update()
update_edit_returns(updated) ==
    /\ phase = "running"
    /\ update_call.pc = "edit"
    /\ notifier' = edit_returned(notifier, updated, update_call.now)
    /\ update_call' = NoCall
    /\ UNCHANGED <<clock, spin_task, done_call, gateway_log, phase>>
    /\ UNCHANGED <<backendVars, loopVars, gatewayVars, unitVars>>

\* _spin(), lines 89-97: the sleep is over
spin_wakes ==
    /\ spin_task.pc = "sleep"
    /\ clock >= spin_task.wake
    /\ IF notifier.message_handle = 0 \/ clock - notifier.last_edit_ts < MinInterval
       THEN /\ spin_task' = IF notifier.running THEN Sleeping ELSE [NoSpin EXCEPT !.pc = "over"]
            /\ UNCHANGED gateway_log
       ELSE /\ spin_task' = [pc |-> "edit", now |-> clock, wake |-> 0]
            /\ gateway_log' = edit_text_issued(edit_issued(gateway_log), "spin")
    /\ UNCHANGED <<notifier, clock, update_call, done_call, phase>>
    /\ UNCHANGED <<backendVars, loopVars, gatewayVars, unitVars>>

\* edit_text answers _spin(), lines 102-103, then "while self._running"
spin_edit_returns(updated) ==
    /\ spin_task.pc = "edit"
    /\ notifier' = edit_returned(notifier, updated, spin_task.now)
    /\ spin_task' = IF notifier.running THEN Sleeping ELSE [NoSpin EXCEPT !.pc = "over"]
    /\ UNCHANGED <<clock, update_call, done_call, gateway_log, phase>>
    /\ UNCHANGED <<backendVars, loopVars, gatewayVars, unitVars>>

\* time passes
clock_tick ==
    /\ phase \in {"running", "stopping"}
    /\ clock < MaxTime
    /\ clock' = clock + 1
    /\ UNCHANGED <<notifier, update_call, spin_task, done_call, gateway_log, phase>>
    /\ UNCHANGED <<backendVars, loopVars, gatewayVars, unitVars>>

\* main.py lines 692-695: the status loop is cancelled where it is suspended;
\* a send_text under way may have delivered its message or not
status_cancelled_in_call(delivered) ==
    /\ phase = "running"
    /\ phase' = "stopping"
    /\ update_call' = [pc |-> "cancelled", now |-> 0]
    /\ gateway_log' = IF update_call.pc = "send" /\ delivered
                      THEN [gateway_log EXCEPT !.created = @ + 1]
                      ELSE gateway_log
    /\ UNCHANGED <<notifier, clock, spin_task, done_call>>
    /\ UNCHANGED <<backendVars, loopVars, gatewayVars, unitVars>>

\* done(), lines 83-85: _running = False and the spinner task is cancelled
spin_stopped(task) == IF task.pc = "none" THEN task ELSE [NoSpin EXCEPT !.pc = "over"]

\* main.py line 697: done(text), lines 72-82
done_called ==
    /\ phase = "stopping"
    /\ done_call = "none"
    /\ IF notifier.disabled
       THEN /\ done_call' = "finished"
            /\ UNCHANGED gateway_log
       ELSE IF notifier.message_handle = 0
            THEN /\ done_call' = "send"
                 /\ gateway_log' = send_issued(gateway_log)
            ELSE /\ done_call' = "edit"
                 /\ gateway_log' = edit_text_issued(gateway_log, "final")
    /\ UNCHANGED <<notifier, clock, update_call, spin_task, phase>>
    /\ UNCHANGED <<backendVars, loopVars, gatewayVars, unitVars>>

\* send_text answers the start() that done() awaits, then lines 83-85
done_send_returns(sent) ==
    /\ done_call = "send"
    /\ LET handle == IF sent THEN gateway_log.created + 1 ELSE 0
       IN /\ notifier' = [start_returned(notifier, handle, clock) EXCEPT !.running = FALSE]
          /\ gateway_log' = [gateway_log EXCEPT !.created = IF sent THEN @ + 1 ELSE @]
          /\ spin_task' = IF sent THEN [NoSpin EXCEPT !.pc = "over"] ELSE spin_task
    /\ done_call' = "finished"
    /\ UNCHANGED <<clock, update_call, phase>>
    /\ UNCHANGED <<backendVars, loopVars, gatewayVars, unitVars>>

\* edit_text answers done(), then lines 83-85
done_edit_returns(updated) ==
    /\ done_call = "edit"
    /\ updated \in BOOLEAN
    /\ notifier' = [notifier EXCEPT !.running = FALSE]
    /\ spin_task' = spin_stopped(spin_task)
    /\ done_call' = "finished"
    /\ UNCHANGED <<clock, update_call, gateway_log, phase>>
    /\ UNCHANGED <<backendVars, loopVars, gatewayVars, unitVars>>

NotifierNext ==
    \/ update_called
    \/ \E sent \in BOOLEAN : update_send_returns(sent)
    \/ \E updated \in BOOLEAN : update_edit_returns(updated)
    \/ spin_wakes
    \/ \E updated \in BOOLEAN : spin_edit_returns(updated)
    \/ clock_tick
    \/ \E delivered \in BOOLEAN : status_cancelled_in_call(delivered)
    \/ done_called
    \/ \E sent \in BOOLEAN : done_send_returns(sent)
    \/ \E updated \in BOOLEAN : done_edit_returns(updated)

SpecNotifier == NotifierInit /\ [][NotifierNext]_vars

(***************************************************************************)
(* Properties of the progress notifier                                     *)
(***************************************************************************)
\* C14: over a whole process lifetime, for every sequence of status ticks,
\* spinner ticks and the final done() (the status loop may be cancelled while
\* a call of the notifier is suspended), the notifier creates exactly one
\* status message through the gateway: never a second one, and one is there
\* when done() has returned.
C14_ExactlyOneMessage ==
    /\ gateway_log.created <= 1
    /\ done_call = "finished" => gateway_log.created = 1

\* C15: in every interleaving of the update() calls of the status loop and the
\* spinner task, any two edits the notifier issues to the gateway are at least
\* the minimum inter-edit interval apart.
C15_EditsThrottled == ~gateway_log.too_close

\* an edit was issued and has failed: no call is under way and the time of the
\* last successful edit is older than the last edit issued
EditFailed ==
    /\ notifier.message_handle # 0
    /\ gateway_log.last_edit >= 0
    /\ notifier.last_edit_ts < gateway_log.last_edit
    /\ update_call.pc \in {"idle", "cancelled"}
    /\ spin_task.pc \in {"sleep", "over"}

\* C16: a failed edit never triggers a send: once the notifier holds a message
\* handle, no sequence of update(), spinner and done() calls, whatever the
\* edits answer, calls the send of the gateway again.
C16_NoSendWithHandle ==
    /\ ~gateway_log.send_with_handle
    /\ notifier.message_handle # 0 => update_call.pc # "send" /\ done_call # "send"

\* an edit has failed, and done() has run after it
C16_Witness == EditFailed /\ done_call = "finished"

\* the columns of a row the tagging task writes, the embedding task writes
TaggingColumns(row) ==
    <<row.tags, row.enrichment, row.tags_processed, row.tag_attempts, row.last_tag_error>>

EmbeddingColumns(row) ==
    <<row.embedding, row.embedding_processed, row.embedding_attempts,
      row.last_embedding_error>>

ShutdownOrder ==
    /\ mainPc' = "notified" => mainPc = "gathered"
    /\ mainPc' = "gateway_closed" => mainPc = "notified"
    /\ mainPc' = "closed" => mainPc = "gateway_closed"

QuietAfterCancel ==
    /\ tagging_loop.pc = "cancelled" =>
          /\ tagging_loop' = tagging_loop
          /\ tag_rate' = tag_rate
          /\ \A i \in Ids : TaggingColumns(messages'[i]) = TaggingColumns(messages[i])
    /\ embedding_loop.pc = "cancelled" =>
          /\ embedding_loop' = embedding_loop
          /\ embed_rate' = embed_rate
          /\ \A i \in Ids : EmbeddingColumns(messages'[i]) = EmbeddingColumns(messages[i])
    /\ status_loop \in {"ended", "cancelled"} => status_loop' = status_loop
    /\ ingest_loop \in {"ended", "cancelled"} => ingest_loop' = ingest_loop

\* C19: once stop_event is set the four tasks are cancelled and over before
\* notifier.done is awaited, done comes before gateway.close, db.close comes
\* last, and a task that got its CancelledError writes no row and calls no
\* backend afterwards.
C19_ShutdownOrder ==
    /\ [](mainPc \in {"gathered", "notified", "gateway_closed", "closed"} => TasksOver)
    /\ [][ShutdownOrder /\ QuietAfterCancel]_vars

C19_Witness ==
    /\ mainPc = "closed"
    /\ ingest_loop = "cancelled"
    /\ status_loop = "cancelled"
    /\ \E i \in Ids : messages[i].tags_processed

\* C20: the emoji generate_tags returns, from the queued backend or from the
\* direct one, which the tagging loop hands unchanged to update_enrichment
\* (main.py lines 329-330), are at most MAX_EMOJI entries of ALLOWED_EMOJI.
C20_EmojiWithinAllowList ==
    (pc = "done" /\ op = "tags" /\ outcome.kind = "return") =>
        /\ Len(outcome.v.emoji) <= MAX_EMOJI
        /\ \A i \in DOMAIN outcome.v.emoji : outcome.v.emoji[i] \in ALLOWED_EMOJI

\* a code vector over the named dimensions, in hundredths: sentiment in
\* [-1, 1], every other dimension in [0, 1]
CodeInRange(code) ==
    /\ DOMAIN code \subseteq CodeKeys
    /\ \A key \in DOMAIN code :
          IF key = "sentiment" THEN code[key] \in -100..100 ELSE code[key] \in 0..100

\* C21: the code vector generate_tags returns, from the queued backend or from
\* the direct one, which the tagging loop hands unchanged to update_enrichment
\* (main.py lines 329-330), has only the named dimensions, sentiment in [-1, 1]
\* and every other dimension in [0, 1].
C21_CodeWithinRanges ==
    (pc = "done" /\ op = "tags" /\ outcome.kind = "return") => CodeInRange(outcome.v.code)

(***************************************************************************)
(* TelegramGateway (worker/telegram_gateway.py): send_text and edit_text   *)
(* over the brokered transport (api, and api_legacy for the default base)  *)
(* and the direct transport (direct_bot).  A handle "mcp:7" or "tg:7" is   *)
(* the pair of its tag and the message id.                                 *)
(***************************************************************************)
NoHandle == [tag |-> "none", id |-> 0]
Handle(tag, id) == [tag |-> tag, id |-> id]

\* what TelegramGateway.__init__ can build (lines 35-44): api_legacy only
\* beside api
GatewayConfigs ==
    {c \in [api : BOOLEAN, api_legacy : BOOLEAN, bot_id : BOOLEAN,
            fallback_direct : BOOLEAN, direct_bot : BOOLEAN] :
        c.api_legacy => c.api}

\* the answers of api.send_message to the first call and to the call repeated
\* without bot_id; of bot.send_message
ApiSendReplies ==
    {<<first, second>> : first \in {"id", "no_id", "api_error", "exception", "type_error"},
                         second \in {"id", "api_error"}}
SendReplies ==
    [primary : ApiSendReplies, legacy : ApiSendReplies, direct : {"ok", "exception"}]

ApiEditReplies ==
    {<<first, second>> : first \in {"ok", "api_error", "exception", "type_error"},
                         second \in {"ok", "api_error"}}
EditReplies ==
    [primary : ApiEditReplies, legacy : ApiEditReplies, direct : {"ok", "exception"}]

\* one call of a transport as the gateway's log keeps it
TransportCall(transport, ok) == [transport |-> transport, ok |-> ok]

\* the answer that counts: with a bot_id a TypeError is answered by a second
\* call without bot_id (lines 56-66 and 77-87)
api_answer(c, reply) ==
    IF c.bot_id /\ reply[1] = "type_error" THEN reply[2]
    ELSE IF reply[1] = "type_error" THEN "exception" ELSE reply[1]

api_calls(c, transport, reply, good) ==
    IF c.bot_id /\ reply[1] = "type_error"
    THEN <<TransportCall(transport, FALSE), TransportCall(transport, reply[2] = good)>>
    ELSE <<TransportCall(transport, reply[1] = good)>>

\* _send_via_api, lines 52-71: the handle, None for a reply without id, or the
\* exception raised
_send_via_api(c, transport, reply) ==
    LET answer == api_answer(c, reply)
    IN [out |-> IF answer = "id" THEN "handle"
                ELSE IF answer = "no_id" THEN "none" ELSE answer,
        calls |-> api_calls(c, transport, reply, "id")]

\* _edit_via_api, lines 73-88: True or the exception raised
_edit_via_api(c, transport, reply) ==
    LET answer == api_answer(c, reply)
    IN [out |-> answer, calls |-> api_calls(c, transport, reply, "ok")]

NotCalled == [out |-> "not_called", calls |-> <<>>]

\* a send that turns to the direct transport whatever fallback_direct says
send_text_always_direct(c, r) ==
    LET primary == IF c.api THEN _send_via_api(c, "mcp", r.primary) ELSE NotCalled
        direct == IF primary.out # "handle" /\ c.direct_bot
                  THEN <<TransportCall("tg", r.direct = "ok")>> ELSE <<>>
    IN [out |-> IF primary.out = "handle" THEN Handle("mcp", 1)
                ELSE IF direct # <<>> /\ r.direct = "ok" THEN Handle("tg", 1)
                ELSE NoHandle,
        calls |-> primary.calls \o direct]

\* send_text, lines 90-129
send_text(c, r) ==
    LET primary == IF c.api THEN _send_via_api(c, "mcp", r.primary) ELSE NotCalled
        legacy == IF primary.out \in {"api_error", "exception"} /\ c.api_legacy
                  THEN _send_via_api(c, "legacy", r.legacy) ELSE NotCalled
        brokered == primary.out = "handle" \/ legacy.out = "handle"
        direct == IF ~brokered /\ c.fallback_direct /\ c.direct_bot
                  THEN <<TransportCall("tg", r.direct = "ok")>> ELSE <<>>
    IN [out |-> IF brokered THEN Handle("mcp", 1)
                ELSE IF direct # <<>> /\ r.direct = "ok" THEN Handle("tg", 1)
                ELSE NoHandle,
        calls |-> primary.calls \o legacy.calls \o direct]

\* an edit that turns to the direct transport when the brokered edit failed
edit_text_cross(c, h, r) ==
    LET primary == IF h.tag = "mcp" /\ c.api
                   THEN _edit_via_api(c, "mcp", r.primary) ELSE NotCalled
        direct == IF primary.out # "ok" /\ c.fallback_direct /\ c.direct_bot
                  THEN <<TransportCall("tg", r.direct = "ok")>> ELSE <<>>
    IN [updated |-> primary.out = "ok" \/ (direct # <<>> /\ r.direct = "ok"),
        calls |-> primary.calls \o direct]

\* edit_text, lines 131-169
edit_text(c, h, r) ==
    LET primary == IF h.tag = "mcp" /\ c.api
                   THEN _edit_via_api(c, "mcp", r.primary) ELSE NotCalled
        legacy == IF primary.out \in {"api_error", "exception"} /\ c.api_legacy
                  THEN _edit_via_api(c, "legacy", r.legacy) ELSE NotCalled
        brokered == primary.out = "ok" \/ legacy.out = "ok"
        direct == IF ~brokered /\ c.fallback_direct /\ h.tag = "tg" /\ c.direct_bot
                  THEN <<TransportCall("tg", r.direct = "ok")>> ELSE <<>>
    IN [updated |-> brokered \/ (direct # <<>> /\ r.direct = "ok"),
        calls |-> primary.calls \o legacy.calls \o direct]

GatewayInit ==
    /\ gateway \in [conf : GatewayConfigs, handles : {{}}, last : {NoGatewayCall}]
    /\ BackendIdle
    /\ LoopsOff
    /\ NotifierOff
    /\ UnitsOff

\* a caller awaits send_text(chat_id, text)
gateway_send(r) ==
    /\ gateway.conf \in GatewayConfigs
    /\ LET res == send_text(gateway.conf, r)
       IN gateway' = [gateway EXCEPT
                        !.handles = IF res.out = NoHandle THEN @ ELSE @ \cup {res.out},
                        !.last = [op |-> "send", handle |-> NoHandle, out |-> res.out,
                                  updated |-> FALSE, calls |-> res.calls]]
    /\ UNCHANGED <<backendVars, loopVars, notifierVars, unitVars>>

\* a caller awaits edit_text(chat_id, handle, text) with a handle send_text gave
gateway_edit(h, r) ==
    /\ h \in gateway.handles
    /\ LET res == edit_text(gateway.conf, h, r)
       IN gateway' = [gateway EXCEPT
                        !.last = [op |-> "edit", handle |-> h, out |-> NoHandle,
                                  updated |-> res.updated, calls |-> res.calls]]
    /\ UNCHANGED <<backendVars, loopVars, notifierVars, unitVars>>

GatewayNext ==
    \/ \E r \in SendReplies : gateway_send(r)
    \/ \E h \in {Handle("mcp", 1), Handle("tg", 1)} : \E r \in EditReplies : gateway_edit(h, r)

SpecGateway == GatewayInit /\ [][GatewayNext]_vars

\* the kind of a transport: the primary and the legacy client are both the
\* brokered one
TransportKind(transport) == IF transport = "tg" THEN "tg" ELSE "mcp"

CallsOf(kind) ==
    {i \in DOMAIN gateway.last.calls : TransportKind(gateway.last.calls[i].transport) = kind}

\* C17: a handle send_text returns carries the tag of the transport whose call
\* delivered the message, and edit_text calls only the transport kind of the
\* handle's tag, also when that edit fails.
C17_HandlesStayOnTheirTransport ==
    /\ (gateway.last.op = "send" /\ gateway.last.out # NoHandle) =>
          /\ gateway.last.calls # <<>>
          /\ LET delivered == gateway.last.calls[Len(gateway.last.calls)]
             IN delivered.ok /\ TransportKind(delivered.transport) = gateway.last.out.tag
          /\ \A i \in 1..(Len(gateway.last.calls) - 1) : ~gateway.last.calls[i].ok
    /\ gateway.last.op = "edit" =>
          \A i \in DOMAIN gateway.last.calls :
              TransportKind(gateway.last.calls[i].transport) = gateway.last.handle.tag

C17_Witness ==
    /\ gateway.last.op = "edit"
    /\ gateway.last.handle.tag = "mcp"
    /\ gateway.last.calls # <<>>
    /\ ~gateway.last.updated
    /\ gateway.conf.fallback_direct
    /\ gateway.conf.direct_bot
    /\ Handle("tg", 1) \in gateway.handles

\* C18: send_text calls the brokered transport first; the direct transport is
\* called only after every brokered call failed or when there is none, only
\* with fallback_direct set and a direct bot built, and at most once; the
\* result is None exactly when no call succeeded.
C18_SendFallsBackOnce ==
    gateway.last.op = "send" =>
        /\ (gateway.conf.api => gateway.last.calls # <<>> /\ gateway.last.calls[1].transport = "mcp")
        /\ \A i \in CallsOf("tg") :
              /\ gateway.conf.fallback_direct
              /\ gateway.conf.direct_bot
              /\ i = Len(gateway.last.calls)
              /\ \A j \in 1..(i - 1) :
                    /\ gateway.last.calls[j].transport # "tg"
                    /\ ~gateway.last.calls[j].ok
        /\ Cardinality(CallsOf("tg")) <= 1
        /\ (gateway.last.out = NoHandle <=>
               \A i \in DOMAIN gateway.last.calls : ~gateway.last.calls[i].ok)

C18_Witness ==
    /\ gateway.last.op = "send"
    /\ CallsOf("mcp") # {}
    /\ CallsOf("tg") # {}
    /\ gateway.last.out = Handle("tg", 1)

(***************************************************************************)
(* The pure functions, each called once with drawn arguments:              *)
(* tagging.normalize_tags, ollama_client._merge_code and                   *)
(* ollama_client._fallback_emoji.                                          *)
(***************************************************************************)
\* code vectors: sentiment, market and urgency vary, the other keys are 0
CodeSamples ==
    {[key \in CodeKeys |->
         CASE key = "sentiment" -> s
           [] key = "market" -> m
           [] key = "urgency" -> u
           [] OTHER -> 0] : s \in {-100, -40, 0, 40}, m \in {0, 70, 100}, u \in {0, 80}}

\* a text in which fourteen matchers fire
TxtMany ==
    [sub |-> {"tanker", "vzryv", "zolot", "serebr", "platin", "neft", "gaz", "ugol",
              "kukuruz", "sahar", "samolet", "kosmos", "ipotek", "rynok"},
     word |-> {"neft", "gaz"}, flags |-> {"RU", "CN"}]

EmojiTagLists == {<<>>, <<"CB", "USD/RUB">>, <<"Gaz", "Bank">>, <<"Ozon">>}

\* eleven allow-listed emoji, the last of them one of the safe set
ElevenEmoji == <<"fire", "moneybag", "coin", "receipt", "shield", "test_tube",
                 "rocket", "target", "check", "cross", "party">>

\* the "emoji" member of a reply: the list, or FALSE for a member that is no list
ReplyEmoji ==
    {<<>>, <<"pizza">>, <<"chart_up", "pizza", "news", "warn", ObjItem>>,
     <<"party", "chart_down", "party", "oil">>, <<"bank", "brain", "RU", "fx">>,
     ElevenEmoji}

\* {"tags": tags, "emoji": emoji, "code": code} as the model's reply
EmojiFields(tags, emojiIsList, emoji, code) ==
    [isEmptyDict |-> FALSE, tagsIsList |-> TRUE, tags |-> tags,
     emojiIsList |-> emojiIsList, emoji |-> emoji,
     codeIsDict |-> TRUE, code |-> code]

ReplyCodes == {EmptyDict, GoodFields.code}

EmojiReplies ==
    {DirectReply("ok", MText(form, EmojiFields(tags, TRUE, emoji, code))) :
        form \in {"object", "embedded"}, tags \in EmojiTagLists, emoji \in ReplyEmoji,
        code \in ReplyCodes}
    \cup {DirectReply("ok", MText("object", EmojiFields(tags, FALSE, <<>>, EmptyDict))) :
            tags \in EmojiTagLists}

PureCalls ==
    [fn : {"normalize_tags"}, raw_tags : RawTagLists, raw_json : AliasOverrides,
     morph : BOOLEAN]
    \cup [fn : {"_merge_code"}, base : CodeSamples, fallback : CodeSamples]
    \cup [fn : {"_fallback_emoji"}, tags : EmojiTagLists, code : CodeSamples,
          text : {TxtEmpty, TxtPlain, TxtOil, TxtMarket, TxtMany}]
    \cup [fn : {"generate_tags"}, reply : EmojiReplies,
          text : {TxtEmpty, TxtPlain, TxtOil, TxtMarket, TxtMany},
          candidates : CandidateLists]

PureInit ==
    /\ pure_call \in PureCalls
    /\ pure_ret = NoPureRet
    /\ BackendIdle
    /\ LoopsOff
    /\ NotifierOff
    /\ GatewayOff
    /\ RateOff
    /\ SaveOff
    /\ RunsOff

\* what a call of normalize_tags leaves: the list after the loop (lines
\* 432-442), after _merge_compounds and after _filter_generic (line 443)
normalize_tags_ret(result) ==
    [fn |-> "normalize_tags", result |-> result, merged |-> _merge_compounds(result),
     out |-> _filter_generic(_merge_compounds(result))]

\* tagging.normalize_tags(raw_tags, build_alias_map(settings.tag_aliases))
normalize_tags_returns ==
    /\ pure_call.fn = "normalize_tags"
    /\ pure_ret = NoPureRet
    /\ pure_ret' = normalize_tags_ret(
                       normalize_tags_result(pure_call.raw_tags,
                                             build_alias_map(pure_call.raw_json),
                                             pure_call.morph))
    /\ UNCHANGED <<pure_call, backendVars, loopVars, notifierVars, gatewayVars, rateVars,
                   saveVars, runVars>>

\* ollama_client._merge_code(base, fallback)
merge_code_returns ==
    /\ pure_call.fn = "_merge_code"
    /\ pure_ret = NoPureRet
    /\ pure_ret' = [fn |-> "_merge_code",
                    merged |-> _merge_code(pure_call.base, pure_call.fallback)]
    /\ UNCHANGED <<pure_call, backendVars, loopVars, notifierVars, gatewayVars, rateVars,
                   saveVars, runVars>>

\* ollama_client._fallback_emoji(tags, code, text)
fallback_emoji_returns ==
    /\ pure_call.fn = "_fallback_emoji"
    /\ pure_ret = NoPureRet
    /\ pure_ret' = [fn |-> "_fallback_emoji",
                    result |-> _fallback_emoji(pure_call.tags, pure_call.code,
                                               pure_call.text)]
    /\ UNCHANGED <<pure_call, backendVars, loopVars, notifierVars, gatewayVars, rateVars,
                   saveVars, runVars>>

\* ollama_client.generate_tags(text, ..., candidates) on a reply that parses
generate_tags_returns ==
    /\ pure_call.fn = "generate_tags"
    /\ pure_ret = NoPureRet
    /\ pure_ret' = [fn |-> "generate_tags",
                    outcome |-> ollama_generate_tags(pure_call.reply, pure_call.text,
                                                     pure_call.candidates)]
    /\ UNCHANGED <<pure_call, backendVars, loopVars, notifierVars, gatewayVars, rateVars,
                   saveVars, runVars>>

\* llm_backend.generate_tags over the same text, candidates and reply text:
\* once with the reply as the result of a queued job (lines 222-250), once
\* with it as the answer of the direct backend (line 256)
llm_generate_tags_returns(max_count) ==
    /\ pure_call.fn = "generate_tags"
    /\ pure_ret = NoPureRet
    /\ pure_ret' =
          [fn |-> "llm_backend.generate_tags", max_count |-> max_count,
           queued |-> mcp_generate_tags_result(
                          JobResult("response", pure_call.reply.text, FALSE, <<>>),
                          pure_call.candidates, max_count),
           direct |-> ollama_generate_tags(pure_call.reply, pure_call.text,
                                           pure_call.candidates)]
    /\ UNCHANGED <<pure_call, backendVars, loopVars, notifierVars, gatewayVars, rateVars,
                   saveVars, runVars>>

PureNext ==
    \/ normalize_tags_returns
    \/ merge_code_returns
    \/ fallback_emoji_returns
    \/ generate_tags_returns
    \/ \E max_count \in 1..MaxCount : llm_generate_tags_returns(max_count)

SpecPure == PureInit /\ [][PureNext]_vars

PureReturned(fn) == pure_call.fn = fn /\ pure_ret.fn = fn

NoDuplicates(s) == \A i, j \in 1..Len(s) : s[i] = s[j] => i = j

\* xs is ys with some items left out, the order kept
RECURSIVE IsSubSeq(_, _)
IsSubSeq(xs, ys) ==
    IF xs = <<>> THEN TRUE
    ELSE IF ys = <<>> THEN FALSE
    ELSE IF xs[1] = ys[1] THEN IsSubSeq(Tail(xs), Tail(ys))
    ELSE IsSubSeq(xs, Tail(ys))

\* the call is made with the built-in alias table alone
DefaultAliasTable == pure_call.raw_json.form \in {"none", "invalid"}

\* C22: for every raw tag list and every alias map (the built-in table merged
\* with any override data) the list normalize_tags returns has no tag twice,
\* and each of its tags is made only of characters of the allowed class
\* (Latin and Cyrillic letters, digits, space and . / & ( ) + -).
C22_NormalizedTagsWellFormed ==
    PureReturned("normalize_tags") =>
        /\ NoDuplicates(pure_ret.out)
        /\ \A i \in 1..Len(pure_ret.out) : AllIn(pure_ret.out[i], TagChar)

IsGeneric(tag) == str_lower(tag) \in _GENERIC_TAGS

\* C29: normalize_tags prunes the too-generic tags only when more than 6 tags
\* are left after de-duplication and compound merging and at least 3 tags are
\* left after pruning; otherwise it returns the unpruned list unchanged; the
\* kept tags keep their order.
C29_GenericPruning ==
    PureReturned("normalize_tags") =>
        LET merged == pure_ret.merged
            out == pure_ret.out
            others == {i \in 1..Len(merged) : ~IsGeneric(merged[i])}
        IN /\ IsSubSeq(out, merged)
           /\ IF Len(merged) > 6 /\ Cardinality(others) >= 3
              THEN /\ Len(out) = Cardinality(others)
                   /\ \A i \in 1..Len(out) : ~IsGeneric(out[i])
              ELSE out = merged

C29_Witness ==
    /\ PureReturned("normalize_tags")
    /\ Len(pure_ret.merged) > 6
    /\ Len(pure_ret.out) >= 3
    /\ Len(pure_ret.out) < Len(pure_ret.merged)

\* the position of the first raw tag that normalizes to tag; norm: the raw
\* tags normalized one by one
FirstSeen(norm, tag) ==
    CHOOSE i \in 1..Len(norm) : norm[i] = tag /\ \A j \in 1..(i - 1) : norm[j] # tag

FirstSeenOrder(norm, result) ==
    \A i, j \in 1..Len(result) :
        i < j => FirstSeen(norm, result[i]) < FirstSeen(norm, result[j])

NormalizedOneByOne(raw_tags, aliases, morph) ==
    [i \in 1..Len(raw_tags) |-> normalize_tag(raw_tags[i], aliases, morph)]

\* C30: with the default alias table normalize_tags strips a leading # and a
\* known descriptive prefix before the alias lookup, resolves the rest to its
\* canonical tag, drops pure numeric tokens and keeps the first-seen order;
\* ["#Rost Ozona", "BPLA", "12345"] gives exactly ["Ozon", "BPLA"].
C30_DefaultTableExample ==
    (PureReturned("normalize_tags") /\ DefaultAliasTable) =>
        /\ pure_call.raw_tags = RawTagExample
              => pure_ret.out = <<Capitalized(W_ozon), str_upper(W_bpla)>>
        /\ pure_call.raw_tags = <<Raw_HashRostOzona>>
              => pure_ret.out = <<Capitalized(W_ozon)>>
        /\ \A i \in 1..Len(pure_ret.out) : ~IsNumber(pure_ret.out[i])
        /\ FirstSeenOrder(NormalizedOneByOne(pure_call.raw_tags,
                                               build_alias_map(pure_call.raw_json),
                                               pure_call.morph),
                            pure_ret.result)

C30_Witness ==
    /\ PureReturned("normalize_tags")
    /\ DefaultAliasTable
    /\ pure_call.raw_tags = RawTagExample
    /\ pure_ret.out = <<Capitalized(W_ozon), str_upper(W_bpla)>>

\* C27: for every model code vector and fallback code vector _merge_code
\* gives for sentiment the one of the two values with the larger absolute
\* magnitude, its sign kept, and for every other dimension the maximum of
\* the two values.
C27_MergeCode ==
    PureReturned("_merge_code") =>
        LET base == pure_call.base
            fallback == pure_call.fallback
            merged == pure_ret.merged
        IN /\ DOMAIN merged = CodeKeys
           /\ merged["sentiment"] \in {base["sentiment"], fallback["sentiment"]}
           /\ Abs(merged["sentiment"])
                 = Max2(Abs(base["sentiment"]), Abs(fallback["sentiment"]))
           /\ \A key \in CodeKeys \ {"sentiment"} :
                 /\ merged[key] \in {base[key], fallback[key]}
                 /\ merged[key] >= base[key]
                 /\ merged[key] >= fallback[key]

C27_Witness ==
    /\ PureReturned("_merge_code")
    /\ pure_call.base["sentiment"] = 40
    /\ pure_call.fallback["sentiment"] = -100
    /\ pure_ret.merged["sentiment"] = -100
    /\ pure_call.base["market"] < pure_call.fallback["market"]
    /\ pure_call.base["urgency"] > pure_call.fallback["urgency"]

\* no key of the text or of the tags occurs and no value of the code vector is
\* over a threshold of _fallback_emoji
NothingFires ==
    /\ pure_call.text = NoHits
    /\ tag_text(pure_call.tags) = NoHits
    /\ pure_call.code["market"] <= 60
    /\ pure_call.code["commodities"] <= 70
    /\ pure_call.code["fx"] <= 60
    /\ pure_call.code["rates"] <= 70
    /\ pure_call.code["geopolitics"] <= 60
    /\ pure_call.code["urgency"] <= 70

\* C28: for every input (tags, code vector, text) the emoji fallback returns
\* between 1 and 10 emoji, no emoji twice, all of them from the allow-list,
\* and exactly the one news emoji when no category matcher fires.
C28_FallbackEmoji ==
    PureReturned("_fallback_emoji") =>
        /\ Len(pure_ret.result) >= 1
        /\ Len(pure_ret.result) <= 10
        /\ NoDuplicates(pure_ret.result)
        /\ Range(pure_ret.result) \subseteq ALLOWED_EMOJI
        /\ NothingFires => pure_ret.result = <<"news">>

C28_Witness ==
    /\ PureReturned("_fallback_emoji")
    /\ NothingFires
    /\ pure_call.tags # <<>>
    /\ pure_ret.result = <<"news">>

(***************************************************************************)
(* RateTracker (worker/main.py, lines 29-45): add and rate called in any   *)
(* order.                                                                  *)
(***************************************************************************)
RateWindow == 2     \* window, the maxlen of the deque
MaxAdds == 5        \* calls of add in one behaviour

RateCounts == {10, 20}
RateDurations == {-1, 0, 5}

\* deque(maxlen=maxlen).append(x): the oldest item leaves a full deque
deque_append(dq, x, maxlen) ==
    IF Len(dq) >= maxlen THEN SubSeq(dq, 2, Len(dq)) \o <<x>> ELSE Append(dq, x)

\* an add that keeps a sample whatever its duration
RateTracker_add_keep_all(samples, count, duration) ==
    deque_append(samples, <<count, duration>>, RateWindow)

\* RateTracker.add, lines 33-36
RateTracker_add(samples, count, duration) ==
    IF duration <= 0 THEN samples
    ELSE deque_append(samples, <<count, duration>>, RateWindow)

\* sum(x[k] for x in samples)
RECURSIVE SumOf(_, _)
SumOf(samples, k) ==
    IF samples = <<>> THEN 0 ELSE samples[1][k] + SumOf(Tail(samples), k)

\* RateTracker.rate, lines 38-43: None, or the quotient total_count / total_time
\* written as the pair (count, time)
RateTracker_rate(samples) ==
    LET total_count == SumOf(samples, 1)
        total_time == SumOf(samples, 2)
    IN IF total_time <= 0
       THEN [called |-> TRUE, none |-> TRUE, count |-> 0, time |-> 0]
       ELSE [called |-> TRUE, none |-> FALSE, count |-> total_count, time |-> total_time]

(***************************************************************************)
(* main.format_eta, lines 98-106.  A text is the sequence of its           *)
(* characters; seconds is None or the quotient num / den.                  *)
(***************************************************************************)
DigitChars == <<"0", "1", "2", "3", "4", "5", "6", "7", "8", "9">>

\* str(n) for n >= 0
RECURSIVE DigitsOf(_)
DigitsOf(n) ==
    IF n < 10 THEN <<DigitChars[n + 1]>>
    ELSE DigitsOf(n \div 10) \o <<DigitChars[(n % 10) + 1]>>

\* f"{n:02d}" for n >= 0
Format02d(n) == IF n < 10 THEN <<"0">> \o DigitsOf(n) ELSE DigitsOf(n)

NoSeconds == [none |-> TRUE, num |-> 0, den |-> 1]
Seconds(num, den) == [none |-> FALSE, num |-> num, den |-> den]

\* int(seconds) rounds towards zero
IntOf(seconds) ==
    IF seconds.num >= 0 THEN seconds.num \div seconds.den
    ELSE -((-seconds.num) \div seconds.den)

\* a format_eta that prints the seconds as they come, without the leading zero
format_eta_unpadded(seconds) ==
    IF seconds.none THEN <<"-">>
    ELSE LET whole == Max2(0, IntOf(seconds))
             secs == whole % 60
             mins == (whole \div 60) % 60
             hours == (whole \div 60) \div 60
         IN IF hours > 0
            THEN DigitsOf(hours) \o <<"h">> \o DigitsOf(mins) \o <<"m">>
            ELSE DigitsOf(mins) \o <<"m">> \o DigitsOf(secs) \o <<"s">>

format_eta(seconds) ==
    IF seconds.none THEN <<"-">>
    ELSE LET whole == Max2(0, IntOf(seconds))
             secs == whole % 60
             mins == (whole \div 60) % 60
             hours == (whole \div 60) \div 60
         IN IF hours > 0
            THEN DigitsOf(hours) \o <<"h">> \o Format02d(mins) \o <<"m">>
            ELSE DigitsOf(mins) \o <<"m">> \o Format02d(secs) \o <<"s">>

\* status_loop, lines 523-526: format_eta(pending / rate) if rate else "-";
\* a rate of 0.0 is as false as None
status_eta(rate, pending) ==
    IF rate.none \/ rate.count = 0 THEN <<"-">>
    ELSE format_eta(Seconds(pending * rate.time, rate.count))

\* the arguments format_eta is called with
EtaSeconds ==
    {NoSeconds, Seconds(-5, 1), Seconds(0, 1), Seconds(59, 1), Seconds(125, 1),
     Seconds(3599, 1), Seconds(3600, 1), Seconds(7325, 2), Seconds(360000, 1)}

\* stats["tags_pending"]
PendingCounts == {0, 1, 250, 7300}

RateInit ==
    /\ rate_samples = <<>>
    /\ rate_history = <<>>
    /\ rate_ret = NoRate
    /\ BackendIdle
    /\ LoopsOff
    /\ NotifierOff
    /\ GatewayOff
    /\ PureOff
    /\ SaveOff
    /\ RunsOff

\* tag_rate.add(count, duration)
rate_add(count, duration) ==
    /\ Len(rate_history) < MaxAdds
    /\ rate_samples' = RateTracker_add(rate_samples, count, duration)
    /\ rate_history' = Append(rate_history, <<count, duration>>)
    /\ rate_ret' = NoRate
    /\ UNCHANGED <<backendVars, loopVars, notifierVars, gatewayVars, pureVars, saveVars,
                   runVars>>

\* tag_rate.rate()
rate_read ==
    /\ ~rate_ret.called
    /\ rate_ret' = RateTracker_rate(rate_samples)
    /\ UNCHANGED <<rate_samples, rate_history>>
    /\ UNCHANGED <<backendVars, loopVars, notifierVars, gatewayVars, pureVars, saveVars,
                   runVars>>

\* format_eta(seconds)
format_eta_returns(seconds) ==
    /\ pure_ret' = [fn |-> "format_eta", seconds |-> seconds, out |-> format_eta(seconds)]
    /\ UNCHANGED <<pure_call, rateVars>>
    /\ UNCHANGED <<backendVars, loopVars, notifierVars, gatewayVars, saveVars, runVars>>

\* one turn of status_loop after fetch_stats and rate(): the ETA it shows
status_loop_eta(pending) ==
    /\ rate_ret.called
    /\ pure_ret' = [fn |-> "status_loop", rate |-> rate_ret, pending |-> pending,
                    eta |-> status_eta(rate_ret, pending)]
    /\ UNCHANGED <<pure_call, rateVars>>
    /\ UNCHANGED <<backendVars, loopVars, notifierVars, gatewayVars, saveVars, runVars>>

RateNext ==
    \/ \E count \in RateCounts, duration \in RateDurations : rate_add(count, duration)
    \/ rate_read
    \/ \E seconds \in EtaSeconds : format_eta_returns(seconds)
    \/ \E pending \in PendingCounts : status_loop_eta(pending)

SpecRate == RateInit /\ [][RateNext]_vars

\* the samples of positive duration among those added
Measured(history) == SelectSeq(history, LAMBDA x : x[2] > 0)

\* the last RateWindow of them: the older ones are evicted first
Retained(history) ==
    LET measured == Measured(history)
    IN SubSeq(measured, Max2(1, Len(measured) - RateWindow + 1), Len(measured))

\* C26: after any sequence of add(count, duration) calls rate() is the sum of
\* the counts divided by the sum of the durations of the samples retained in
\* the window (at most the window size, the oldest evicted first); it is
\* undefined when there is no sample or every sample had zero duration; for
\* the samples (10, 5) and (20, 5) it is 3.
C26_RateOverWindow ==
    rate_ret.called =>
        LET kept == Retained(rate_history)
        IN /\ Len(kept) <= RateWindow
           /\ rate_ret.none <=> kept = <<>>
           /\ ~rate_ret.none =>
                 /\ rate_ret.time > 0
                 /\ rate_ret.count * SumOf(kept, 2) = SumOf(kept, 1) * rate_ret.time
           /\ (\A i \in 1..Len(rate_history) : rate_history[i][2] = 0) => rate_ret.none
           /\ rate_history = << <<10, 5>>, <<20, 5>> >>
                 => ~rate_ret.none /\ rate_ret.count = 3 * rate_ret.time

C26_Witness ==
    /\ rate_ret.called
    /\ ~rate_ret.none
    /\ Len(Measured(rate_history)) > RateWindow
    /\ \E i \in 1..Len(rate_history) : rate_history[i][2] = 0
    /\ rate_history[1] = <<20, 5>>
    /\ rate_ret.count = 2 * rate_ret.time

(***************************************************************************)
(* Db.save_tags (worker/db.py, lines 234-257): one call, statement by      *)
(* statement, and a reader on another connection.                          *)
(***************************************************************************)
MaxSaveTags == 2    \* the longest list of tags saved

SaveTagNames == {"Ozon", "CB", "Gaz"}
SaveMessageIds == {1, 2}

\* the rows committed before the call
SaveRowsBefore ==
    { NoRows,
      [tags |-> {"Ozon"}, links |-> {}],
      [tags |-> {"Ozon"}, links |-> {<<2, "Ozon">>}],
      [tags |-> {"Ozon", "CB"}, links |-> {<<1, "Ozon">>}] }

SaveTagLists == UNION {[1..n -> SaveTagNames] : n \in 1..MaxSaveTags}

\* rows with one more row in a table (ON CONFLICT: a row already there stays one row)
WithRow(rows, table, row) ==
    IF table = "tags" THEN [rows EXCEPT !.tags = @ \cup {row}]
    ELSE [rows EXCEPT !.links = @ \cup {row}]

\* a statement that commits its row at once, outside any transaction
conn_execute_autocommit(db, written, table, row) ==
    [db |-> WithRow(db, table, row), written |-> written]

\* conn.fetchrow / conn.execute inside "async with conn.transaction()", lines
\* 236-256: the row is written in the open transaction, the committed rows stay
conn_execute(db, written, table, row) ==
    [db |-> db, written |-> WithRow(written, table, row)]

\* leaving "async with conn.transaction()" without an exception: COMMIT
transaction_commit(db, written) ==
    [tags |-> db.tags \cup written.tags, links |-> db.links \cup written.links]

\* leaving it with an exception: ROLLBACK, and the exception goes on
transaction_rollback(call) == [call EXCEPT !.pc = "raised", !.written = NoRows]

SaveTagsInit ==
    /\ save_db \in SaveRowsBefore
    /\ save_call \in [pc : {"called"}, message_id : SaveMessageIds, tags : SaveTagLists,
                      at : {1}, step : {"tag"}, before : {save_db}, written : {NoRows}]
    /\ save_reader = [during |-> FALSE, rows |-> save_db]
    /\ BackendIdle
    /\ LoopsOff
    /\ NotifierOff
    /\ GatewayOff
    /\ PureOff
    /\ RateOff
    /\ RunsOff

\* lines 235-236: a connection is taken and the transaction begun
save_tags_begin(ok) ==
    /\ save_call.pc = "called"
    /\ save_call' = [save_call EXCEPT !.pc = IF ok THEN "txn" ELSE "raised"]
    /\ UNCHANGED <<save_db, save_reader>>
    /\ UNCHANGED <<backendVars, loopVars, notifierVars, gatewayVars, pureVars, rateVars,
                   runVars>>

\* one statement of the loop body: lines 238-247 (INSERT INTO tags ... RETURNING
\* id) when table = "tags", lines 248-256 (INSERT INTO message_tags) otherwise
save_tags_statement(table, ok) ==
    /\ save_call.pc = "txn"
    /\ save_call.at <= Len(save_call.tags)
    /\ save_call.step = (IF table = "tags" THEN "tag" ELSE "link")
    /\ LET tag == save_call.tags[save_call.at]
           row == IF table = "tags" THEN tag ELSE <<save_call.message_id, tag>>
           r == conn_execute(save_db, save_call.written, table, row)
       IN IF ok
          THEN /\ save_db' = r.db
               /\ save_call' = [save_call EXCEPT
                                  !.written = r.written,
                                  !.step = IF table = "tags" THEN "link" ELSE "tag",
                                  !.at = IF table = "tags" THEN @ ELSE @ + 1]
          ELSE /\ save_db' = save_db
               /\ save_call' = transaction_rollback(save_call)
    /\ UNCHANGED save_reader
    /\ UNCHANGED <<backendVars, loopVars, notifierVars, gatewayVars, pureVars, rateVars,
                   runVars>>

\* line 236, on the way out: the loop is over
save_tags_commit(ok) ==
    /\ save_call.pc = "txn"
    /\ save_call.at > Len(save_call.tags)
    /\ IF ok
       THEN /\ save_db' = transaction_commit(save_db, save_call.written)
            /\ save_call' = [save_call EXCEPT !.pc = "returned", !.written = NoRows]
       ELSE /\ save_db' = save_db
            /\ save_call' = transaction_rollback(save_call)
    /\ UNCHANGED save_reader
    /\ UNCHANGED <<backendVars, loopVars, notifierVars, gatewayVars, pureVars, rateVars,
                   runVars>>

\* a query of another connection (fetch_top_tags): it reads the
\* committed rows
reader_query ==
    /\ save_call.pc \in {"called", "txn", "returned", "raised"}
    /\ save_reader' = [during |-> save_call.pc = "txn" /\ save_call.written # NoRows,
                       rows |-> save_db]
    /\ save_reader' # save_reader
    /\ UNCHANGED <<save_db, save_call>>
    /\ UNCHANGED <<backendVars, loopVars, notifierVars, gatewayVars, pureVars, rateVars,
                   runVars>>

SaveTagsNext ==
    \/ \E ok \in BOOLEAN : save_tags_begin(ok)
    \/ \E table \in {"tags", "links"}, ok \in BOOLEAN : save_tags_statement(table, ok)
    \/ \E ok \in BOOLEAN : save_tags_commit(ok)
    \/ reader_query

SpecSaveTags == SaveTagsInit /\ [][SaveTagsNext]_vars

\* the committed rows once every tag of the call and every link is in
SaveRowsAfter ==
    [tags |-> save_call.before.tags \cup Range(save_call.tags),
     links |-> save_call.before.links
                  \cup {<<save_call.message_id, t>> : t \in Range(save_call.tags)}]

\* C23: saving an item's tags is atomic per item: when save_tags fails at any
\* tag, none of the call's tag inserts and none of its links is kept, and no
\* concurrent reader ever observes a part of them.
C23_SaveTagsAtomic ==
    save_call.pc # "off" =>
        /\ save_db \in {save_call.before, SaveRowsAfter}
        /\ save_reader.rows \in {save_call.before, SaveRowsAfter}
        /\ save_call.pc \in {"called", "txn", "raised"} =>
              save_db = save_call.before /\ save_reader.rows = save_call.before
        /\ save_call.pc = "returned" => save_db = SaveRowsAfter

C23_Witness ==
    /\ save_call.pc = "raised"
    /\ save_call.at = 2
    /\ save_call.step = "link"
    /\ save_call.tags[1] \notin save_call.before.tags
    /\ save_reader.during
    /\ save_db = save_call.before

(***************************************************************************)
(* The item handling of tagging_loop (worker/main.py, lines 277-353) and   *)
(* of embedding_loop (lines 372-426) with the ProgressState they are       *)
(* given, in two runs that get the same items and the same answers.        *)
(***************************************************************************)
MaxRunItems == 2    \* the longest list of items handled

Runs == {"A", "B"}

\* ProgressState(), telegram_notifier.py lines 10-22
ProgressState ==
    [stage |-> "Idle", channel |-> "None", message_id |-> 0, preview |-> "None",
     tags |-> <<>>, emoji_line |-> <<>>, code |-> "None", tps |-> 0,
     detail |-> "None", embed_info |-> "None", last_error |-> "None"]

\* a ProgressState as backfill_once left it after an item
ProgressAfterBackfill ==
    [ProgressState EXCEPT !.stage = "Backfill", !.channel = "chan", !.message_id = 7,
                          !.preview = "old", !.detail = "found 3", !.last_error = "old error"]

\* the rows the fetches return: one ordinary post and one service post
RunItems ==
    { [id |-> 1, message_id |-> 11, channel_username |-> "chan", content |-> "post",
       service |-> FALSE],
      [id |-> 2, message_id |-> 12, channel_username |-> "chan", content |-> "pinned",
       service |-> TRUE] }

RunItemLists == UNION {[1..n -> RunItems] : n \in 1..MaxRunItems}

\* what generate_tags returns (raw_tags, emoji_list, code_json, eval_tps) or raises
TagAnswers ==
    { [kind |-> "ok", tags |-> <<"Ozon">>, emoji |-> <<"chart_up">>, code |-> "code",
       tps |-> 5],
      [kind |-> "ok", tags |-> <<>>, emoji |-> <<>>, code |-> "None", tps |-> 0],
      [kind |-> "raise", tags |-> <<>>, emoji |-> <<>>, code |-> "None", tps |-> 0] }

\* what embed_text returns (the length of the vector) or raises
EmbedAnswers == { [kind |-> "ok", dim |-> 3], [kind |-> "ok", dim |-> 0],
                  [kind |-> "raise", dim |-> 0] }

\* which repository call of the handler raises: none (0), the first, the second, ...
DbFailures == 0..3

RepoOp(name, id, args) == [op |-> name, id |-> id, args |-> args]

\* the calls made when the fail-th of the planned calls raises: the calls up
\* to it, then the call of the except branch (lines 347-348, 421-422)
ops_until_failure(planned, fail, id, on_error) ==
    IF fail = 0 \/ fail > Len(planned) THEN planned
    ELSE SubSeq(planned, 1, fail) \o <<RepoOp(on_error, id, <<"db error">>)>>

Failed(planned, fail) == fail # 0 /\ fail <= Len(planned)

\* " ".join(emoji_list) if emoji_list else None: the line is known by the
\* emoji it joins, None is the empty one
emoji_line_of(emoji) == emoji

\* lines 347-351: the except branch writes last_error and detail
progress_tag_error(progress, error) ==
    [progress EXCEPT !.last_error = error, !.detail = "tagging error"]

\* lines 281-296 (service post) and 297-323 (up to the call of generate_tags)
tagging_item_start(item, fail, progress) ==
    IF item.service
    THEN LET planned == <<RepoOp("update_enrichment", item.id,
                                 <<<<"news">>, <<"news">>, "None">>),
                          RepoOp("mark_tags_processed", item.id, <<>>)>>
         IN [ops |-> ops_until_failure(planned, fail, item.id, "mark_tag_error"),
             progress |->
                 IF Failed(planned, fail) THEN progress_tag_error(progress, "db error")
                 ELSE [progress EXCEPT !.stage = "Tagging",
                                       !.channel = item.channel_username,
                                       !.message_id = item.message_id,
                                       !.preview = item.content,
                                       !.detail = "service post",
                                       !.tags = <<>>, !.emoji_line = <<"news">>,
                                       !.code = "None", !.tps = 0,
                                       !.last_error = "None"],
             next |-> IF Failed(planned, fail) THEN "next" ELSE "embedding"]
    ELSE [ops |-> <<RepoOp("generate_tags", item.id, <<item.content>>)>>,
          progress |-> [progress EXCEPT !.stage = "Tagging",
                                        !.channel = item.channel_username,
                                        !.message_id = item.message_id,
                                        !.preview = item.content,
                                        !.tags = <<>>, !.emoji_line = <<>>,
                                        !.code = "None", !.tps = 0,
                                        !.embed_info = "None", !.detail = "tagging",
                                        !.last_error = "None"],
          next |-> "generate_tags"]

\* lines 324-331 and 347-348: the repository calls after generate_tags
tagging_finish_ops(item, answer, fail) ==
    IF answer.kind = "raise"
    THEN <<RepoOp("mark_tag_error", item.id, <<"backend error">>)>>
    ELSE ops_until_failure(
             (IF answer.tags # <<>>
              THEN <<RepoOp("save_tags", item.id, <<answer.tags>>)>> ELSE <<>>)
             \o <<RepoOp("update_enrichment", item.id,
                         <<emoji_line_of(answer.emoji), answer.emoji, answer.code>>),
                  RepoOp("mark_tags_processed", item.id, <<>>)>>,
             fail, item.id, "mark_tag_error")

\* the item is tagged: no call raised
tagging_finished(answer, fail) ==
    answer.kind = "ok" /\ (fail = 0 \/ fail > (IF answer.tags # <<>> THEN 3 ELSE 2))

\* lines 332-351: what the handler writes to the ProgressState
tagging_finish_progress(answer, fail, progress) ==
    IF answer.kind = "raise" THEN progress_tag_error(progress, "backend error")
    ELSE IF ~tagging_finished(answer, fail) THEN progress_tag_error(progress, "db error")
    ELSE [progress EXCEPT !.tags = answer.tags,
                          !.emoji_line = emoji_line_of(answer.emoji),
                          !.code = answer.code, !.tps = answer.tps,
                          !.detail = "tags"]

\* a handler that goes on only when the ProgressState still shows its stage
tagging_item_finish_by_stage(item, answer, fail, progress) ==
    [ops |-> IF progress.stage = "Tagging" THEN tagging_finish_ops(item, answer, fail)
             ELSE <<>>,
     progress |-> tagging_finish_progress(answer, fail, progress),
     next |-> IF tagging_finished(answer, fail) THEN "embedding" ELSE "next"]

\* lines 323-353: from the return of generate_tags to the end of the item
tagging_item_finish(item, answer, fail, progress) ==
    [ops |-> tagging_finish_ops(item, answer, fail),
     progress |-> tagging_finish_progress(answer, fail, progress),
     next |-> IF tagging_finished(answer, fail) THEN "embedding" ELSE "next"]

\* lines 372-401: up to the call of embed_text
embedding_item_start(item, progress) ==
    [ops |-> <<RepoOp("embed_text", item.id, <<item.content>>)>>,
     progress |-> [progress EXCEPT !.stage = "Embedding",
                                   !.channel = item.channel_username,
                                   !.message_id = item.message_id,
                                   !.preview = item.content,
                                   !.embed_info = "model", !.detail = "embedding",
                                   !.last_error = "None", !.tags = <<>>,
                                   !.emoji_line = <<>>, !.code = "None",
                                   !.tps = 0],
     next |-> "embed_text"]

\* lines 402-426: from the return of embed_text to the end of the item
embedding_item_finish(item, answer, fail, progress) ==
    IF answer.kind = "raise"
    THEN [ops |-> <<RepoOp("mark_embedding_error", item.id, <<"backend error">>)>>,
          progress |-> [progress EXCEPT !.last_error = "backend error",
                                        !.embed_info = "embedding error"],
          next |-> "next"]
    ELSE IF answer.dim > 0
    THEN LET planned == <<RepoOp("save_embedding", item.id, <<answer.dim>>),
                          RepoOp("mark_embedding_processed", item.id, <<>>)>>
         IN [ops |-> ops_until_failure(planned, fail, item.id, "mark_embedding_error"),
             progress |-> IF Failed(planned, fail)
                          THEN [progress EXCEPT !.last_error = "db error",
                                                !.embed_info = "embedding error"]
                          ELSE [progress EXCEPT !.embed_info = "ok"],
             next |-> "next"]
    ELSE LET planned == <<RepoOp("mark_embedding_error", item.id, <<"empty embedding">>)>>
         IN [ops |-> planned,
             progress |-> IF Failed(planned, fail)
                          THEN [progress EXCEPT !.last_error = "db error",
                                                !.embed_info = "embedding error"]
                          ELSE [progress EXCEPT !.embed_info = "empty embedding"],
             next |-> "next"]

\* ingest_loop, lines 157-166: another task writes the shared ProgressState
ingest_progress(progress) ==
    [progress EXCEPT !.stage = "Ingest", !.channel = "other", !.detail = "fetching",
                     !.last_error = "None", !.tags = <<>>, !.emoji_line = <<>>,
                     !.code = "None", !.tps = 0, !.embed_info = "None"]

\* a run after a handler step h
RunAfter(run, h, items) ==
    LET over == h.next = "next"
        pos == IF over THEN run.pos + 1 ELSE run.pos
    IN [progress |-> h.progress,
        ops |-> run.ops \o h.ops,
        pos |-> pos,
        stage |-> IF ~over THEN h.next
                  ELSE IF pos > Len(items) THEN "done" ELSE "tagging"]

\* one step of a run: the next part of the handling of its item, with the
\* answer the backend gives and the repository call that fails
run_step(run, items, tag_answer, embed_answer, fail) ==
    IF run.stage = "done" THEN run
    ELSE LET item == items[run.pos]
         IN CASE run.stage = "tagging" ->
                    RunAfter(run, tagging_item_start(item, fail, run.progress), items)
              [] run.stage = "generate_tags" ->
                    RunAfter(run, tagging_item_finish(item, tag_answer, fail,
                                                      run.progress), items)
              [] run.stage = "embedding" ->
                    RunAfter(run, embedding_item_start(item, run.progress), items)
              [] OTHER ->
                    RunAfter(run, embedding_item_finish(item, embed_answer, fail,
                                                        run.progress), items)

RunsInit ==
    /\ pipeline \in [items : RunItemLists, differed : {FALSE}]
    /\ two_runs \in {[r \in Runs |->
                        [progress |-> IF r = "A" THEN ProgressState ELSE p,
                         ops |-> <<>>, pos |-> 1, stage |-> "tagging"]] :
                     p \in {ProgressState, ProgressAfterBackfill}}
    /\ BackendIdle
    /\ LoopsOff
    /\ NotifierOff
    /\ GatewayOff
    /\ PureOff
    /\ RateOff
    /\ SaveOff

\* both runs go one step on, with the same answers
runs_step(tag_answer, embed_answer, fail) ==
    /\ \E r \in Runs : two_runs[r].stage # "done"
    /\ two_runs' = [r \in Runs |->
                       run_step(two_runs[r], pipeline.items, tag_answer, embed_answer,
                                fail)]
    /\ pipeline' = [pipeline EXCEPT
                       !.differed = @ \/ two_runs["A"].progress # two_runs["B"].progress]
    /\ UNCHANGED <<backendVars, loopVars, notifierVars, gatewayVars, pureVars, rateVars,
                   saveVars>>

\* in one of the runs the ingest loop writes the ProgressState in between
ingest_writes_progress(r) ==
    /\ two_runs[r].stage # "done"
    /\ two_runs[r].progress # ingest_progress(two_runs[r].progress)
    /\ two_runs' = [two_runs EXCEPT ![r].progress = ingest_progress(@)]
    /\ UNCHANGED pipeline
    /\ UNCHANGED <<backendVars, loopVars, notifierVars, gatewayVars, pureVars, rateVars,
                   saveVars>>

RunsNext ==
    \/ \E tag_answer \in TagAnswers, embed_answer \in EmbedAnswers, fail \in DbFailures :
          runs_step(tag_answer, embed_answer, fail)
    \/ \E r \in Runs : ingest_writes_progress(r)

SpecProgress == RunsInit /\ [][RunsNext]_vars

\* C24: ProgressState is pure telemetry: two runs that differ only in the
\* contents of the ProgressState, or in the writes made to it in between, make
\* the same repository operations with the same arguments and the same
\* backend calls in the tagging and embedding loops.
C24_ProgressIsTelemetry ==
    pipeline.items # <<>> =>
        /\ two_runs["A"].ops = two_runs["B"].ops
        /\ two_runs["A"].pos = two_runs["B"].pos
        /\ two_runs["A"].stage = two_runs["B"].stage

C24_Witness ==
    /\ pipeline.items # <<>>
    /\ two_runs["A"].stage = "done"
    /\ pipeline.differed
    /\ two_runs["A"].progress # two_runs["B"].progress
    /\ \E i \in 1..Len(two_runs["A"].ops) : two_runs["A"].ops[i].op = "save_tags"
    /\ \E i \in 1..Len(two_runs["B"].ops) : two_runs["B"].ops[i].op = "save_embedding"

(***************************************************************************)
(* The tagging and embedding loops alone, polling cycle after polling      *)
(* cycle, over items that fail again and again.                            *)
(***************************************************************************)
MaxRetries == 3     \* attempts per item and stage followed here

\* a row already tagged at its first attempt
TaggedRow ==
    [Row(FALSE) EXCEPT !.tags_processed = TRUE, !.tag_attempts = 1, !.tags = TRUE,
                       !.enrichment = "model"]

RetryInit ==
    /\ messages \in [Ids -> {Row(FALSE), Row(TRUE), TaggedRow}]
    /\ tagging_loop = Task("fetch", <<>>)
    /\ embedding_loop = Task("fetch", <<>>)
    /\ status_loop = "off"
    /\ ingest_loop = "off"
    /\ tag_rate = 0
    /\ embed_rate = 0
    /\ mainPc = "running"
    /\ BackendIdle
    /\ NotifierOff
    /\ GatewayOff
    /\ UnitsOff

RetryNext ==
    \/ \E ok \in BOOLEAN : tagging_fetch_upto(ok, MaxRetries)
    \/ \E result \in {"tags", "no_tags", "raise"} : tagging_generate_tags(result)
    \/ \E ok \in BOOLEAN : tagging_save_tags(ok)
    \/ \E ok \in BOOLEAN : tagging_update_enrichment(ok)
    \/ \E ok \in BOOLEAN : tagging_mark_tags_processed(ok)
    \/ \E ok \in BOOLEAN : tagging_mark_tag_error(ok)
    \/ tagging_sleep
    \/ \E ok \in BOOLEAN : embedding_fetch_upto(ok, MaxRetries)
    \/ \E result \in {"vector", "empty", "raise"} : embedding_embed_text(result)
    \/ \E ok \in BOOLEAN : embedding_save_embedding(ok)
    \/ \E ok \in BOOLEAN : embedding_mark_embedding_processed(ok)
    \/ \E ok \in BOOLEAN : embedding_mark_empty(ok)
    \/ \E ok \in BOOLEAN : embedding_mark_embedding_error(ok)
    \/ embedding_sleep

SpecRetry == RetryInit /\ [][RetryNext]_vars

\* the items a fetch without LIMIT would return
PendingTags == {i \in Ids : ~messages[i].tags_processed}
PendingEmbeddings ==
    {i \in Ids : messages[i].tags_processed /\ ~messages[i].embedding_processed}

\* every pending item is in the result of the fetch, whatever its attempts
PendingIsFetched ==
    /\ PendingTags \subseteq Range(fetch_pending_tags(messages, MaxItems))
    /\ PendingEmbeddings \subseteq Range(fetch_pending_embeddings(messages, MaxItems))

\* a fetch that returns items returns every pending item
FetchTakesPending ==
    /\ (tagging_loop.pc = "fetch" /\ tagging_loop'.items # <<>>)
          => PendingTags \subseteq Range(tagging_loop'.items)
    /\ (embedding_loop.pc = "fetch" /\ embedding_loop'.items # <<>>)
          => PendingEmbeddings \subseteq Range(embedding_loop'.items)

\* a recorded failure: the error is written, the item stays pending and its
\* counter is one more; no step changes a counter otherwise than by one
FailureCountsOne ==
    \A i \in Ids :
        /\ messages'[i].tag_attempts \in {messages[i].tag_attempts,
                                         messages[i].tag_attempts + 1}
        /\ messages'[i].embedding_attempts \in {messages[i].embedding_attempts,
                                               messages[i].embedding_attempts + 1}
        /\ (tagging_loop.pc = "mark_tag_error" /\ Head(tagging_loop.items) = i
              /\ tagging_loop' # tagging_loop /\ messages'[i] # messages[i])
              => /\ messages'[i].tag_attempts = messages[i].tag_attempts + 1
                 /\ messages'[i].last_tag_error # ""
                 /\ ~messages'[i].tags_processed
        /\ (embedding_loop.pc \in {"mark_embedding_error", "mark_empty"}
              /\ Head(embedding_loop.items) = i
              /\ embedding_loop' # embedding_loop /\ messages'[i] # messages[i])
              => /\ messages'[i].embedding_attempts = messages[i].embedding_attempts + 1
                 /\ messages'[i].last_embedding_error # ""
                 /\ ~messages'[i].embedding_processed

ModelEmoji == ollama_emoji_list(pure_call.reply.text.fields)

\* the scorer's emoji for the reply's tags, the returned code and the text (line 535)
ScorerEmoji ==
    _fallback_emoji(pure_call.reply.text.fields.tags, pure_ret.outcome.v.code,
                    pure_call.text)

KeptOf(model_emoji, fallback_emoji) ==
    SelectSeq(model_emoji, LAMBDA e : e \in Range(fallback_emoji) \cup SAFE_EMOJI)

ReconciledAs(model_emoji, fallback_emoji, kept) ==
    IF model_emoji = <<>> THEN fallback_emoji
    ELSE Take(kept \o SelectSeq(fallback_emoji, LAMBDA e : e \notin Range(kept)),
              MAX_EMOJI)

C31_WitnessNone ==
    /\ PureReturned("generate_tags")
    /\ pure_ret.outcome.kind = "return"
    /\ pure_call.reply.text.fields.emoji # <<>>
    /\ ModelEmoji = <<>>
    /\ pure_ret.outcome.v.emoji = ScorerEmoji

(***************************************************************************)
(* The ETA of the status line.                                             *)
(***************************************************************************)
\* the two characters of a number below 100
TwoDigits(n) == <<DigitChars[(n \div 10) + 1], DigitChars[(n % 10) + 1]>>

\* shown is "<m>m<ss>s" for the whole seconds, or "<h>h<mm>m" from one hour on
RendersSeconds(shown, whole) ==
    IF whole < 3600
    THEN \E m \in 0..59, sec \in 0..59 :
            /\ m * 60 + sec = whole
            /\ shown = DigitsOf(m) \o <<"m">> \o TwoDigits(sec) \o <<"s">>
    ELSE \E m \in 0..59 :
            LET h == whole \div 3600
            IN /\ h * 3600 + m * 60 <= whole
               /\ whole < h * 3600 + (m + 1) * 60
               /\ shown = DigitsOf(h) \o <<"h">> \o TwoDigits(m) \o <<"m">>

\* the whole seconds of num / den, nothing below zero
WholeSeconds(num, den) == IF num <= 0 THEN 0 ELSE num \div den

\* C32: format_eta renders an undefined value as "-", a duration under one
\* hour as minutes and two-digit seconds (125 gives "2m05s") and a longer one
\* as hours and two-digit minutes; the status loop shows "-" as ETA exactly
\* when the rate is undefined and format_eta(pending / rate) otherwise.
C32_EtaRendering ==
    /\ pure_ret.fn = "format_eta" =>
          /\ pure_ret.seconds.none => pure_ret.out = <<"-">>
          /\ ~pure_ret.seconds.none =>
                RendersSeconds(pure_ret.out,
                               WholeSeconds(pure_ret.seconds.num, pure_ret.seconds.den))
          /\ pure_ret.seconds = Seconds(125, 1)
                => pure_ret.out = <<"2", "m", "0", "5", "s">>
    /\ pure_ret.fn = "status_loop" =>
          /\ pure_ret.eta = <<"-">> <=> pure_ret.rate.none
          /\ ~pure_ret.rate.none =>
                RendersSeconds(pure_ret.eta,
                               WholeSeconds(pure_ret.pending * pure_ret.rate.time,
                                            pure_ret.rate.count))

\* 250 items are pending at 2 items a second: the status loop shows 2m05s
C32_Witness ==
    /\ pure_ret.fn = "status_loop"
    /\ pure_ret.pending = 250
    /\ ~pure_ret.rate.none
    /\ pure_ret.rate.count = 2 * pure_ret.rate.time
    /\ pure_ret.eta = <<"2", "m", "0", "5", "s">>

\* format_eta printed a duration of more than an hour that is no whole second
C32_WitnessHours ==
    /\ pure_ret.fn = "format_eta"
    /\ pure_ret.seconds = Seconds(7325, 2)
    /\ pure_ret.out = <<"1", "h", "0", "1", "m">>

(***************************************************************************)
(* The order of the tagging loop's writes.                                 *)
(***************************************************************************)
\* the item the tagging loop is at
TaggingAt(i) == tagging_loop.items # <<>> /\ Head(tagging_loop.items) = i

\* an item is marked only by the mark of the tagging loop, its enrichment
\* written before; tags and enrichment are written while it is not marked
WritesInOrder ==
    \A i \in Ids :
        /\ (messages'[i].tags_processed /\ ~messages[i].tags_processed)
              => /\ tagging_loop.pc = "mark_tags_processed" /\ TaggingAt(i)
                 /\ messages[i].enrichment # "none"
                 /\ messages'[i].enrichment = messages[i].enrichment
                 /\ messages'[i].tags = messages[i].tags
        /\ messages'[i].enrichment # messages[i].enrichment
              => /\ tagging_loop.pc = "update_enrichment" /\ TaggingAt(i)
                 /\ ~messages'[i].tags_processed
                 /\ messages'[i].tags = messages[i].tags
        /\ messages'[i].tags # messages[i].tags
              => /\ tagging_loop.pc = "save_tags" /\ TaggingAt(i)
                 /\ ~messages'[i].tags_processed

\* a write of the tagging loop fails: the item it is at stays unmarked
FailedWriteLeavesUnmarked ==
    (/\ tagging_loop.pc \in {"save_tags", "update_enrichment", "mark_tags_processed"}
     /\ tagging_loop'.pc = "mark_tag_error")
        => /\ ~messages'[Head(tagging_loop.items)].tags_processed
           /\ messages' = messages

\* C33: for an item that is no service post the tagging loop writes the
\* normalized tags (when any), then the emoji and the code, then the
\* tag-processed mark; so in every reachable state an item with
\* tags_processed true has had its enrichment written, and a failure at any
\* of these writes leaves tags_processed false for the item.
C33_EnrichmentBeforeMark ==
    /\ [](\A i \in Ids : messages[i].tags_processed => messages[i].enrichment # "none")
    /\ [](tagging_loop.pc = "mark_tag_error"
              => ~messages[Head(tagging_loop.items)].tags_processed)
    /\ [][WritesInOrder /\ FailedWriteLeavesUnmarked]_vars

\* an item was marked at its second attempt, after the mark of the first
\* attempt had failed, with tags linked and the model's enrichment written
C33_Witness ==
    \E i \in Ids :
        /\ ~messages[i].service
        /\ messages[i].tags_processed
        /\ messages[i].tag_attempts = 2
        /\ messages[i].last_tag_error = ""
        /\ messages[i].tags
        /\ messages[i].enrichment = "model"

(***************************************************************************)
(* The tagging loop alone over a table with more pending rows than one     *)
(* fetch returns.  Whether generate_tags returns depends on the item, and  *)
(* every call that can succeed does so again and again.                    *)
(***************************************************************************)
BatchRows ==
    {[Row(FALSE) EXCEPT !.backend_ok = b] : b \in BOOLEAN} \cup {Row(TRUE)}

BatchInit ==
    /\ messages \in [Ids -> BatchRows]
    /\ tagging_loop = Task("fetch", <<>>)
    /\ embedding_loop = Task("off", <<>>)
    /\ status_loop = "off"
    /\ ingest_loop = "off"
    /\ tag_rate = 0
    /\ embed_rate = 0
    /\ mainPc = "running"
    /\ BackendIdle
    /\ NotifierOff
    /\ GatewayOff
    /\ UnitsOff

\* what generate_tags can do for the item the loop is at
BackendResults ==
    IF tagging_loop.items # <<>> /\ messages[Head(tagging_loop.items)].backend_ok
    THEN {"tags", "no_tags"} ELSE {"raise"}

tagging_generate_tags_item == \E result \in BackendResults : tagging_generate_tags(result)

BatchNext(limit) ==
    \/ \E ok \in BOOLEAN : tagging_fetch_limit(ok, AttemptCeiling + 1, limit)
    \/ tagging_generate_tags_item
    \/ \E ok \in BOOLEAN : tagging_save_tags(ok)
    \/ \E ok \in BOOLEAN : tagging_update_enrichment(ok)
    \/ \E ok \in BOOLEAN : tagging_mark_tags_processed(ok)
    \/ \E ok \in BOOLEAN : tagging_mark_tag_error(ok)
    \/ tagging_sleep

\* the event loop resumes the task, and no call fails for ever: each of the
\* loop's calls that can succeed does succeed again and again
BatchFairness(limit) ==
    /\ SF_vars(tagging_fetch_limit(TRUE, AttemptCeiling + 1, limit))
    /\ SF_vars(tagging_generate_tags_item)
    /\ SF_vars(tagging_save_tags(TRUE))
    /\ SF_vars(tagging_update_enrichment(TRUE))
    /\ SF_vars(tagging_mark_tags_processed(TRUE))
    /\ SF_vars(tagging_mark_tag_error(TRUE))
    /\ WF_vars(tagging_sleep)

SmallBatchNext == BatchNext(SmallBatchLimit)

SpecBatch == BatchInit /\ [][SmallBatchNext]_vars

SpecBatchFair == SpecBatch /\ BatchFairness(SmallBatchLimit)

\* the same loop with the limit of the code, above the rows of the table
WholeBatchNext == BatchNext(TagBatchLimit)

SpecWholeBatchFair ==
    BatchInit /\ [][WholeBatchNext]_vars /\ BatchFairness(TagBatchLimit)

\* the item is pending and the loop would succeed with it
Healthy(i) ==
    ~messages[i].tags_processed /\ (messages[i].service \/ messages[i].backend_ok)

\* C34: under fair scheduling every tag-pending item for which the backend
\* call would succeed is eventually marked tag-processed, even when other
\* pending items fail at every attempt: the failing items do not keep the
\* healthy ones out of the fetched batch.
C34_HealthyItemsGetTagged ==
    \A i \in Ids : Healthy(i) ~> messages[i].tags_processed

\* the newer item has failed AttemptCeiling times while the older one, which
\* the backend would tag, has never been fetched
C34_Starved ==
    /\ tagging_loop.pc = "sleep"
    /\ \E i, j \in Ids :
          /\ i < j
          /\ Healthy(i) /\ messages[i].tag_attempts = 0
          /\ ~messages[j].tags_processed /\ ~messages[j].backend_ok
          /\ messages[j].tag_attempts = AttemptCeiling

(***************************************************************************)
(* The attempts of the tagging loop at one message, main.py lines 276-356, *)
(* with the rows save_tags commits (db.py lines 234-257).  save_call is    *)
(* the loop at the message: the tags of the running attempt, the attempts  *)
(* recorded, the flag and the tags of the attempt that set it.             *)
(***************************************************************************)
\* what normalize_tags can give: a list without duplicates, or none
AttemptTagLists ==
    {<<>>} \cup {tags \in SaveTagLists : NoDuplicates(tags)}

\* the rows one call of save_tags commits (C23: all of them or none)
save_tags_rows(message_id, tags) ==
    [tags |-> Range(tags), links |-> {<<message_id, tags[k]>> : k \in 1..Len(tags)}]

AttemptsInit ==
    /\ save_db \in {NoRows, [tags |-> {"Ozon"}, links |-> {<<2, "Ozon">>}]}
    /\ save_call = [pc |-> "fetch", message_id |-> 1, tags |-> <<>>, exc |-> "",
                    tag_attempts |-> 0, tags_processed |-> FALSE, marked_with |-> <<>>]
    /\ save_reader = [during |-> FALSE, rows |-> save_db]
    /\ BackendIdle
    /\ LoopsOff
    /\ NotifierOff
    /\ GatewayOff
    /\ PureOff
    /\ RateOff
    /\ RunsOff

\* except Exception as exc, line 351
attempt_caught(error) == [save_call EXCEPT !.pc = "mark_tag_error", !.exc = error]

\* lines 271-276: the message is fetched while it is pending
attempt_fetch ==
    /\ save_call.pc = "fetch"
    /\ ~save_call.tags_processed
    /\ save_call.tag_attempts < MaxRetries
    /\ save_call' = [save_call EXCEPT !.pc = "generate_tags", !.tags = <<>>, !.exc = ""]
    /\ UNCHANGED <<save_db, save_reader>>
    /\ UNCHANGED <<backendVars, loopVars, notifierVars, gatewayVars, pureVars, rateVars,
                   runVars>>

\* lines 310-327: generate_tags raises, or normalize_tags gives tags; "if tags:"
attempt_generate_tags(raised, tags) ==
    /\ save_call.pc = "generate_tags"
    /\ save_call' = IF raised THEN attempt_caught("backend error")
                    ELSE [save_call EXCEPT !.tags = tags,
                                           !.pc = IF tags # <<>> THEN "save_tags"
                                                  ELSE "update_enrichment"]
    /\ UNCHANGED <<save_db, save_reader>>
    /\ UNCHANGED <<backendVars, loopVars, notifierVars, gatewayVars, pureVars, rateVars,
                   runVars>>

\* line 328: db.save_tags(message_id, tags)
attempt_save_tags(ok) ==
    /\ save_call.pc = "save_tags"
    /\ IF ok
       THEN /\ save_db' = transaction_commit(save_db,
                              save_tags_rows(save_call.message_id, save_call.tags))
            /\ save_call' = [save_call EXCEPT !.pc = "update_enrichment"]
       ELSE /\ save_db' = save_db
            /\ save_call' = attempt_caught("db error")
    /\ UNCHANGED save_reader
    /\ UNCHANGED <<backendVars, loopVars, notifierVars, gatewayVars, pureVars, rateVars,
                   runVars>>

\* line 330: db.update_enrichment writes columns of the messages row
attempt_update_enrichment(ok) ==
    /\ save_call.pc = "update_enrichment"
    /\ save_call' = IF ok THEN [save_call EXCEPT !.pc = "mark_tags_processed"]
                    ELSE attempt_caught("db error")
    /\ UNCHANGED <<save_db, save_reader>>
    /\ UNCHANGED <<backendVars, loopVars, notifierVars, gatewayVars, pureVars, rateVars,
                   runVars>>

\* line 331: db.mark_tags_processed
attempt_mark_tags_processed(ok) ==
    /\ save_call.pc = "mark_tags_processed"
    /\ save_call' = IF ok
                    THEN [save_call EXCEPT !.pc = "fetch", !.tags_processed = TRUE,
                                           !.tag_attempts = @ + 1,
                                           !.marked_with = save_call.tags]
                    ELSE attempt_caught("db error")
    /\ UNCHANGED <<save_db, save_reader>>
    /\ UNCHANGED <<backendVars, loopVars, notifierVars, gatewayVars, pureVars, rateVars,
                   runVars>>

\* line 352: db.mark_tag_error; a raise is caught at line 357, and the next
\* cycle fetches the message again either way
attempt_mark_tag_error(ok) ==
    /\ save_call.pc = "mark_tag_error"
    /\ save_call' = [save_call EXCEPT !.pc = "fetch",
                                      !.tag_attempts = IF ok THEN @ + 1 ELSE @]
    /\ UNCHANGED <<save_db, save_reader>>
    /\ UNCHANGED <<backendVars, loopVars, notifierVars, gatewayVars, pureVars, rateVars,
                   runVars>>

AttemptsNext ==
    \/ attempt_fetch
    \/ \E raised \in BOOLEAN, tags \in AttemptTagLists : attempt_generate_tags(raised, tags)
    \/ \E ok \in BOOLEAN : attempt_save_tags(ok)
    \/ \E ok \in BOOLEAN : attempt_update_enrichment(ok)
    \/ \E ok \in BOOLEAN : attempt_mark_tags_processed(ok)
    \/ \E ok \in BOOLEAN : attempt_mark_tag_error(ok)

SpecAttempts == AttemptsInit /\ [][AttemptsNext]_vars

\* the tags linked to the message in message_tags
LinkedTags(message_id) == {t \in SaveTagNames : <<message_id, t>> \in save_db.links}

\* C35: after an item is marked tag-processed the tags linked to it are the
\* normalize_tags output of the attempt that marked it: tags saved by an
\* earlier attempt that failed before the mark are not left linked.
C35_LinkedTagsAreTheMarkingAttempts ==
    (save_call.pc # "off" /\ save_call.tags_processed)
        => LinkedTags(save_call.message_id) = Range(save_call.marked_with)

\* the message is marked by its second attempt, whose tags are not those the
\* first attempt had saved
C35_StaleLinks ==
    /\ save_call.pc # "off"
    /\ save_call.tags_processed
    /\ save_call.tag_attempts = 2
    /\ \E t \in LinkedTags(save_call.message_id) : t \notin Range(save_call.marked_with)

(***************************************************************************)
(* The completion flags.                                                   *)
(***************************************************************************)
\* no step resets a flag or takes a row away
FlagsStay ==
    /\ DOMAIN messages' = DOMAIN messages
    /\ \A i \in Ids :
          /\ messages[i].tags_processed => messages'[i].tags_processed
          /\ messages[i].embedding_processed => messages'[i].embedding_processed

\* no item a loop still has in its batch is processed for the loop's stage:
\* the backend is called for the head of the batch only
NoWorkAfterSuccess ==
    /\ \A k \in 1..Len(tagging_loop.items) :
          ~messages[tagging_loop.items[k]].tags_processed
    /\ \A k \in 1..Len(embedding_loop.items) :
          ~messages[embedding_loop.items[k]].embedding_processed

\* C36: with a single pipeline instance the completion flags are monotone
\* and work is not repeated after success: once tags_processed (or
\* embedding_processed) is true no loop resets it or deletes the item, and
\* the backend is not called again for that stage of the item.
C36_FlagsMonotone ==
    [][FlagsStay]_vars /\ []NoWorkAfterSuccess

\* the tagging loop is at the backend again for message 1, which failed
\* before, in a batch fetched after message 2 was marked; the embedding
\* loop has done message 2
C36_Witness ==
    /\ tagging_loop.pc = "generate_tags"
    /\ tagging_loop.items = <<1>>
    /\ messages[1].tag_attempts >= 1
    /\ messages[2].tags_processed /\ ~messages[2].service
    /\ messages[2].embedding_processed

(***************************************************************************)
(* The two loops on one item.                                              *)
(***************************************************************************)
\* the columns and links the tagging loop writes
TaggingColumnsOf(row) ==
    <<row.tags, row.enrichment, row.tags_processed, row.tag_attempts, row.last_tag_error>>

\* no item is in the batch of both loops
BatchesApart ==
    \A k \in 1..Len(tagging_loop.items), l \in 1..Len(embedding_loop.items) :
        tagging_loop.items[k] # embedding_loop.items[l]

\* the embedding loop takes into its batch only items that are marked, and
\* nothing the tagging loop writes changes for an item once it is marked
FetchedAfterLastTaggingWrite ==
    /\ embedding_loop'.items # embedding_loop.items
          => \A l \in 1..Len(embedding_loop'.items) :
                messages[embedding_loop'.items[l]].tags_processed
    /\ \A i \in Ids :
          messages[i].tags_processed
              => TaggingColumnsOf(messages'[i]) = TaggingColumnsOf(messages[i])

\* C37: in every interleaving of the tagging and the embedding loop no item
\* is worked on by both at once: the embedding loop fetches an item only
\* after the tagging loop has issued its last repository write for it, the
\* tag-processed mark.
C37_LoopsApart ==
    []BatchesApart /\ [][FetchedAfterLastTaggingWrite]_vars

\* both loops are at the backend at once: the embedding loop with message 2,
\* which the tagging loop marked, the tagging loop with message 1
C37_Witness ==
    /\ tagging_loop.pc = "generate_tags"
    /\ tagging_loop.items = <<1>>
    /\ embedding_loop.pc = "embed_text"
    /\ embedding_loop.items = <<2>>
    /\ messages[2].tags_processed /\ messages[2].tags
    /\ messages[1].tag_attempts >= 1

(***************************************************************************)
(* The two backends on one reply.                                          *)
(***************************************************************************)
\* C38: the two backends are interchangeable for tagging: for the same text,
\* candidates and model reply text generate_tags returns the same tags,
\* emoji and code vector through the queued-job path and the direct path.
C38_BackendsInterchangeable ==
    pure_ret.fn = "llm_backend.generate_tags" =>
        /\ pure_ret.queued.exc = "none" <=> pure_ret.direct.kind = "return"
        /\ pure_ret.queued.exc = "none" =>
              /\ pure_ret.queued.v.tags = pure_ret.direct.v.tags
              /\ pure_ret.queued.v.emoji = pure_ret.direct.v.emoji
              /\ pure_ret.queued.v.code = pure_ret.direct.v.code

\* a reply with the tags Gaz and Bank, no emoji and an empty code object: the
\* queued path returns no emoji and no code, the direct path the scorer's
C38_Differ ==
    /\ pure_ret.fn = "llm_backend.generate_tags"
    /\ pure_call.reply.text.fields.emoji = <<>>
    /\ pure_call.reply.text.fields.code = EmptyDict
    /\ pure_ret.queued.exc = "none" /\ pure_ret.direct.kind = "return"
    /\ pure_ret.queued.v.tags = pure_ret.direct.v.tags
    /\ pure_ret.queued.v.tags # <<>>
    /\ pure_ret.queued.v.emoji = <<>> /\ pure_ret.direct.v.emoji # <<>>
    /\ pure_ret.queued.v.code = EmptyDict /\ pure_ret.direct.v.code # EmptyDict

(***************************************************************************)
(* The disabled notifier, and the last edit.                               *)
(***************************************************************************)
\* a send_text that update() or done() awaited has answered None
SendGaveNoHandle ==
    /\ update_call.pc = "send" \/ done_call = "send"
    /\ update_call'.pc = "idle" \/ done_call' = "finished"
    /\ notifier'.message_handle = 0

\* a disabled notifier stays disabled, asks nothing of the gateway and has
\* no spinner task
DisabledIsSilent ==
    notifier.disabled =>
        /\ notifier'.disabled
        /\ gateway_log' = gateway_log
        /\ update_call'.pc \notin {"send", "edit"}
        /\ done_call' \notin {"send", "edit"}
        /\ spin_task' = NoSpin /\ ~notifier'.task

\* C39: if the notifier's first send returns no handle the notifier is
\* disabled for the rest of the process: every later update() and done()
\* returns without calling the gateway, no spinner task is started and no
\* send or edit is issued again.
C39_DisabledForGood ==
    /\ [][(SendGaveNoHandle => notifier'.disabled) /\ DisabledIsSilent]_vars
    /\ [](notifier.disabled => spin_task = NoSpin /\ ~notifier.task
                                  /\ notifier.message_handle = 0)

\* the first send gave no handle; time went on, the status loop was stopped
\* and done() has returned: one send and no edit in all
C39_Witness ==
    /\ notifier.disabled
    /\ clock >= MinInterval
    /\ done_call = "finished"
    /\ gateway_log.sends = 1
    /\ gateway_log.created = 0
    /\ gateway_log.last_text = "none"

\* C40: in every interleaving of done(text) with the spinner task the last
\* edit the notifier issues carries the final text without a spinner prefix:
\* no spinner edit is issued once the final edit has been issued.
C40_FinalEditIsLast ==
    [][gateway_log.last_text = "final" => gateway_log'.last_text = "final"]_vars

\* done() has returned after its edit, and the last edit issued is the
\* spinner's: it was issued while done() was waiting for the gateway
C40_SpinnerAfterFinal ==
    /\ done_call = "finished"
    /\ ~notifier.disabled
    /\ notifier.message_handle # 0
    /\ spin_task.pc = "over"
    /\ gateway_log.last_text = "spin"

====
